---------------------------- MODULE Spec2Model ----------------------------
(***************************************************************************)
(* Resilience layer of the product-sync tool: the circuit breaker          *)
(* (circuit_breaker.py), the Redis sliding-window rate limiter             *)
(* (redis_rate_limiter.py) and the three-tier cache (unified_cache.py).    *)
(*                                                                         *)
(* Time is one clock, `now`, read by every time.time() call and by the     *)
(* Redis server for key expiry.  It is counted in ticks; TicksPerSecond    *)
(* ticks make one second, so that windows shorter than a second and the    *)
(* int() truncations of the code can be represented.  Two reads of the     *)
(* clock may return the same value (the clock is non-decreasing, not       *)
(* strictly increasing).                                                   *)
(***************************************************************************)
EXTENDS Integers, Sequences, FiniteSets, TLC

(***************************************************************************)
(* Bounds of the model.                                                    *)
(***************************************************************************)
NumThreads == 2         \* threads calling one breaker concurrently
MaxCalls == 4           \* calls of CircuitBreaker.call and reset per behaviour
MaxTime == 3            \* last tick of the clock in the breaker behaviours
MaxThreshold == 3       \* failure_threshold ranges over 1..MaxThreshold
MaxRecovery == 2        \* recovery_timeout ranges over 1..MaxRecovery ticks
TicksPerSecond == 3     \* resolution of the clock
NumCallers == 2         \* callers of the rate limiter
MaxRequests == 2        \* max_requests ranges over 1..MaxRequests
MaxWindow == 2          \* window_seconds ranges over 1..MaxWindow ticks
MaxTimeout == 2         \* acquire's timeout ranges over 1..MaxTimeout ticks
MaxOps == 2             \* limiter operations begun per behaviour
MaxTimeRL == 3          \* last tick of the clock in the limiter behaviours
MaxCacheOps == 3        \* cache operations per behaviour
MaxGets == 3            \* calls of get_circuit_breaker per behaviour

Threads == 1..NumThreads
Callers == 1..NumCallers
Identifiers == {"poizon_api", "default"}

Max(a, b) == IF a >= b THEN a ELSE b
Min(a, b) == IF a <= b THEN a ELSE b

(***************************************************************************)
(* last_failure_time = None                                                *)
(***************************************************************************)
NoTime == -1

\* CircuitState
CLOSED == "closed"
OPEN == "open"
HALF_OPEN == "half_open"

VARIABLES
    now,                \* time.time()
    \* ---- CircuitBreaker ----
    failure_threshold,
    recovery_timeout,
    state,
    failure_count,
    last_failure_time,
    stats,              \* total/successful/failed/rejected requests, state_changes
    pc,                 \* per thread: "idle", or "calling" (inside func, lock released)
    outcome,            \* per thread: what its last call() gave the caller
    probe,              \* per thread: TRUE while it runs the call that was let
                        \*   through by the OPEN -> HALF_OPEN transition
    invoked,            \* number of times the wrapped function was entered
    resets,             \* number of reset() calls so far
    openedAt,           \* the time at which state last changed to OPEN
    \* ---- RedisRateLimiter and the Redis keys it uses ----
    max_requests,
    window_seconds,     \* in ticks
    zset,               \* per identifier: the members of the sorted set; a
                        \*   member is <<current_time, id(self)>>, its score
                        \*   is the current_time in it
    key_expire,         \* per identifier: when the key expires, or NoTime
    store_failed,       \* TRUE once a Redis command of the limiter has failed
    acq,                \* per caller: the locals of its acquire()
    burst,              \* per identifier, since it was last fresh: the
                        \*   acquire calls completed (n), those granted (g),
                        \*   the time of the first (since) and of the last
                        \*   (last), whether all were non-blocking (nb),
                        \*   and the number of entries that the reset which
                        \*   made it fresh removed (freed)
    rl_ops,             \* the limiter operations begun so far
    \* ---- UnifiedCache, the Redis string keys and the cache directory ----
    enable_memory,
    enable_redis,       \* as __init__ leaves it: FALSE when the ping failed
    enable_file,
    memory_cache,       \* full_key -> (data, timestamp, ttl)
    redis_kv,           \* full_key -> pickled value and expiry time
    cache_files,        \* file name -> the bytes of the file
    uc_stats,           \* memory_hits, redis_hits, file_hits, misses, sets,
                        \*   errors
    uc_last,            \* the cache operation made last, what it returned,
                        \*   for a get the tier that answered, whether the
                        \*   call sent a command to Redis (remote), and the
                        \*   tiers an operation of which raised (failures)
    uc_written,         \* (namespace, key) -> the arguments and the time of
                        \*   the last set of that key
    uc_ops,             \* the cache operations made so far
    uc_get,             \* a get of a second thread that is between its hit
                        \*   at a lower tier and the copy to the upper ones
    \* ---- the registry of breakers behind get_circuit_breaker ----
    circuit_breakers,   \* _circuit_breakers: name -> the breaker object stored
                        \*   under it (objects are numbered from 1), 0: none
    created,            \* the number of CircuitBreaker objects constructed
    gcb,                \* per thread: where it is in get_circuit_breaker, and
                        \*   the name it asked for
    received,           \* name -> the objects returned to callers so far
    gcb_calls           \* the calls of get_circuit_breaker so far

cbVars == <<failure_threshold, recovery_timeout, state, failure_count,
            last_failure_time, stats, pc, outcome, probe, invoked, resets,
            openedAt>>

rlVars == <<max_requests, window_seconds, zset, key_expire, store_failed,
            acq, burst, rl_ops>>

ucVars == <<enable_memory, enable_redis, enable_file, memory_cache, redis_kv,
            cache_files, uc_stats, uc_last, uc_written, uc_ops, uc_get>>

regVars == <<circuit_breakers, created, gcb, received, gcb_calls>>

vars == <<now, cbVars, rlVars, ucVars, regVars>>

----------------------------------------------------------------------------
(***************************************************************************)
(* CircuitBreaker                                                          *)
(***************************************************************************)

\* CircuitBreaker.__init__
CircuitBreaker_init ==
    /\ failure_threshold \in 1..MaxThreshold
    /\ recovery_timeout \in 1..MaxRecovery
    /\ failure_count = 0
    /\ last_failure_time = NoTime
    /\ state = CLOSED
    /\ stats = [total_requests |-> 0, successful_requests |-> 0,
                failed_requests |-> 0, rejected_requests |-> 0,
                state_changes |-> <<>>]
    /\ pc = [t \in Threads |-> "idle"]
    /\ outcome = [t \in Threads |-> "none"]
    /\ probe = [t \in Threads |-> FALSE]
    /\ invoked = 0
    /\ resets = 0
    /\ openedAt = NoTime

\* mutants of _should_attempt_reset: one tick early; strict comparison
should_attempt_reset_early ==
    IF last_failure_time = NoTime
    THEN TRUE
    ELSE now - last_failure_time >= recovery_timeout - 1

should_attempt_reset_strict ==
    IF last_failure_time = NoTime
    THEN TRUE
    ELSE now - last_failure_time > recovery_timeout

\* CircuitBreaker._should_attempt_reset
should_attempt_reset ==
    IF last_failure_time = NoTime
    THEN TRUE
    ELSE now - last_failure_time >= recovery_timeout

\* CircuitBreaker._transition_to_half_open, on the statistics st
transition_to_half_open(st) ==
    /\ state' = HALF_OPEN
    /\ stats' = [st EXCEPT !.state_changes =
                     Append(@, [from |-> "OPEN", to |-> "HALF_OPEN"])]

\* mutant of _on_success: the HALF_OPEN branch decays the count like the
\* CLOSED branch instead of clearing it
on_success_decay_only(st) ==
    /\ IF state = HALF_OPEN
       THEN /\ state' = CLOSED
            /\ failure_count' = Max(0, failure_count - 1)
            /\ stats' = [st EXCEPT !.state_changes =
                             Append(@, [from |-> "HALF_OPEN", to |-> "CLOSED"])]
       ELSE /\ failure_count' = Max(0, failure_count - 1)
            /\ state' = state
            /\ stats' = st
    /\ UNCHANGED last_failure_time

\* mutant of _on_success: outside HALF_OPEN a success clears the count
\* instead of decrementing it
on_success_clears(st) ==
    /\ IF state = HALF_OPEN
       THEN /\ state' = CLOSED
            /\ failure_count' = 0
            /\ stats' = [st EXCEPT !.state_changes =
                             Append(@, [from |-> "HALF_OPEN", to |-> "CLOSED"])]
       ELSE /\ failure_count' = 0
            /\ state' = state
            /\ stats' = st
    /\ UNCHANGED last_failure_time

\* CircuitBreaker._on_success, on the statistics st
on_success(st) ==
    /\ IF state = HALF_OPEN
       THEN /\ state' = CLOSED
            /\ failure_count' = 0
            /\ stats' = [st EXCEPT !.state_changes =
                             Append(@, [from |-> "HALF_OPEN", to |-> "CLOSED"])]
       ELSE /\ failure_count' = Max(0, failure_count - 1)
            /\ state' = state
            /\ stats' = st
    /\ UNCHANGED last_failure_time

\* mutant of _on_failure: the threshold is compared with > instead of >=
on_failure_late_threshold(st) ==
    /\ failure_count' = failure_count + 1
    /\ last_failure_time' = now
    /\ IF state = HALF_OPEN
       THEN /\ state' = OPEN
            /\ stats' = [st EXCEPT !.state_changes =
                             Append(@, [from |-> "HALF_OPEN", to |-> "OPEN"])]
       ELSE IF failure_count' > failure_threshold
       THEN /\ state' = OPEN
            /\ stats' = [st EXCEPT !.state_changes =
                             Append(@, [from |-> "CLOSED", to |-> "OPEN"])]
       ELSE /\ state' = state
            /\ stats' = st

\* mutant of _on_failure: a failed HALF_OPEN probe does not refresh
\* last_failure_time
on_failure_stale_time(st) ==
    /\ failure_count' = failure_count + 1
    /\ last_failure_time' = IF state = HALF_OPEN THEN last_failure_time ELSE now
    /\ IF state = HALF_OPEN
       THEN /\ state' = OPEN
            /\ stats' = [st EXCEPT !.state_changes =
                             Append(@, [from |-> "HALF_OPEN", to |-> "OPEN"])]
       ELSE IF failure_count' >= failure_threshold
       THEN /\ state' = OPEN
            /\ stats' = [st EXCEPT !.state_changes =
                             Append(@, [from |-> "CLOSED", to |-> "OPEN"])]
       ELSE /\ state' = state
            /\ stats' = st

\* CircuitBreaker._on_failure, on the statistics st
on_failure(st) ==
    /\ failure_count' = failure_count + 1
    /\ last_failure_time' = now
    /\ IF state = HALF_OPEN
       THEN /\ state' = OPEN
            /\ stats' = [st EXCEPT !.state_changes =
                             Append(@, [from |-> "HALF_OPEN", to |-> "OPEN"])]
       ELSE IF failure_count' >= failure_threshold
       THEN /\ state' = OPEN
            /\ stats' = [st EXCEPT !.state_changes =
                             Append(@, [from |-> "CLOSED", to |-> "OPEN"])]
       ELSE /\ state' = state
            /\ stats' = st

\* mutant of the locking: the lock is held from line 94 until func has
\* returned, so nobody enters while a func is running
lock_acquire_after_func(t) ==
    /\ pc[t] = "idle"
    /\ \A u \in Threads : pc[u] # "calling"

\* with self.lock (line 94): thread t, not inside call(), takes the lock.
\* Each critical section is one step, and func runs between two of them, so
\* the lock is free whenever a step begins.
lock_acquire(t) == pc[t] = "idle"

\* CircuitBreaker.call, lines 94-106: the first critical section.  The thread
\* is either rejected (CircuitBreakerError) or goes on to run func with the
\* lock released.
call_enter(t) ==
    /\ lock_acquire(t)
    /\ stats.total_requests + resets < MaxCalls
    /\ LET st == [stats EXCEPT !.total_requests = @ + 1] IN
       IF state = OPEN
       THEN IF should_attempt_reset
            THEN /\ transition_to_half_open(st)
                 /\ pc' = [pc EXCEPT ![t] = "calling"]
                 /\ probe' = [probe EXCEPT ![t] = TRUE]
                 /\ invoked' = invoked + 1
                 /\ outcome' = [outcome EXCEPT ![t] = "none"]
            ELSE /\ stats' = [st EXCEPT !.rejected_requests = @ + 1]
                 /\ outcome' = [outcome EXCEPT ![t] = "CircuitBreakerError"]
                 /\ UNCHANGED <<state, pc, probe, invoked>>
       ELSE /\ stats' = st
            /\ pc' = [pc EXCEPT ![t] = "calling"]
            /\ invoked' = invoked + 1
            /\ outcome' = [outcome EXCEPT ![t] = "none"]
            /\ UNCHANGED <<state, probe>>
    /\ UNCHANGED <<now, failure_threshold, recovery_timeout, failure_count,
                   last_failure_time, resets, openedAt>>
    /\ UNCHANGED <<rlVars, ucVars, regVars>>

\* CircuitBreaker.call, lines 110-117: func returned
call_success(t) ==
    /\ pc[t] = "calling"
    /\ on_success([stats EXCEPT !.successful_requests = @ + 1])
    /\ pc' = [pc EXCEPT ![t] = "idle"]
    /\ outcome' = [outcome EXCEPT ![t] = "result"]
    /\ probe' = [probe EXCEPT ![t] = FALSE]
    /\ UNCHANGED <<now, failure_threshold, recovery_timeout, invoked, resets,
                   openedAt>>
    /\ UNCHANGED <<rlVars, ucVars, regVars>>

\* mutant of the except branch: the failure is handled but failed_requests
\* is not incremented
call_failure_uncounted(t) ==
    /\ pc[t] = "calling"
    /\ on_failure(stats)
    /\ pc' = [pc EXCEPT ![t] = "idle"]
    /\ outcome' = [outcome EXCEPT ![t] = "expected_exception"]
    /\ probe' = [probe EXCEPT ![t] = FALSE]
    /\ openedAt' = IF state # OPEN /\ state' = OPEN THEN now ELSE openedAt
    /\ UNCHANGED <<now, failure_threshold, recovery_timeout, invoked, resets>>
    /\ UNCHANGED <<rlVars, ucVars, regVars>>

\* CircuitBreaker.call, lines 119-125: func raised an expected_exception
call_failure(t) ==
    /\ pc[t] = "calling"
    /\ on_failure([stats EXCEPT !.failed_requests = @ + 1])
    /\ pc' = [pc EXCEPT ![t] = "idle"]
    /\ outcome' = [outcome EXCEPT ![t] = "expected_exception"]
    /\ probe' = [probe EXCEPT ![t] = FALSE]
    /\ openedAt' = IF state # OPEN /\ state' = OPEN THEN now ELSE openedAt
    /\ UNCHANGED <<now, failure_threshold, recovery_timeout, invoked, resets>>
    /\ UNCHANGED <<rlVars, ucVars, regVars>>

\* CircuitBreaker.call, line 119: func raised something that is no
\* expected_exception; no handler runs and nothing is counted
call_other_exception(t) ==
    /\ pc[t] = "calling"
    /\ pc' = [pc EXCEPT ![t] = "idle"]
    /\ outcome' = [outcome EXCEPT ![t] = "other_exception"]
    /\ probe' = [probe EXCEPT ![t] = FALSE]
    /\ UNCHANGED <<now, failure_threshold, recovery_timeout, state,
                   failure_count, last_failure_time, stats, invoked, resets,
                   openedAt>>
    /\ UNCHANGED <<rlVars, ucVars, regVars>>

\* mutant of reset: last_failure_time is not cleared
CircuitBreaker_reset_keeps_time ==
    /\ stats.total_requests + resets < MaxCalls
    /\ state' = CLOSED
    /\ failure_count' = 0
    /\ UNCHANGED last_failure_time
    /\ resets' = resets + 1
    /\ UNCHANGED <<now, failure_threshold, recovery_timeout, stats, pc,
                   outcome, probe, invoked, openedAt>>
    /\ UNCHANGED <<rlVars, ucVars, regVars>>

\* mutant of reset: failure_count is not cleared
CircuitBreaker_reset_keeps_count ==
    /\ stats.total_requests + resets < MaxCalls
    /\ state' = CLOSED
    /\ last_failure_time' = NoTime
    /\ UNCHANGED failure_count
    /\ resets' = resets + 1
    /\ UNCHANGED <<now, failure_threshold, recovery_timeout, stats, pc,
                   outcome, probe, invoked, openedAt>>
    /\ UNCHANGED <<rlVars, ucVars, regVars>>

\* CircuitBreaker.reset
CircuitBreaker_reset ==
    /\ stats.total_requests + resets < MaxCalls
    /\ state' = CLOSED
    /\ failure_count' = 0
    /\ last_failure_time' = NoTime
    /\ resets' = resets + 1
    /\ UNCHANGED <<now, failure_threshold, recovery_timeout, stats, pc,
                   outcome, probe, invoked, openedAt>>
    /\ UNCHANGED <<rlVars, ucVars, regVars>>

\* the clock advances
Tick ==
    /\ now < MaxTime
    /\ now' = now + 1
    /\ UNCHANGED <<cbVars, rlVars, ucVars, regVars>>

----------------------------------------------------------------------------
(***************************************************************************)
(* RedisRateLimiter.  Durations are in ticks.  A Redis command either      *)
(* succeeds or raises redis.RedisError.                                    *)
(***************************************************************************)

\* the locals of a caller that is not inside acquire()
AcqIdle(res) ==
    [pc |-> "idle", identifier |-> "default", blocking |-> FALSE,
     timeout |-> 0, start_time |-> 0, current_time |-> 0, wake |-> 0,
     result |-> res]

\* no acquire has completed on the identifier since it was empty
Fresh == [n |-> 0, g |-> 0, since |-> 0, last |-> 0, nb |-> TRUE, freed |-> 0]

\* RedisRateLimiter.__init__ and an empty Redis database
RedisRateLimiter_init ==
    /\ max_requests \in 1..MaxRequests
    /\ window_seconds \in 1..MaxWindow
    /\ zset = [i \in Identifiers |-> {}]
    /\ key_expire = [i \in Identifiers |-> NoTime]
    /\ store_failed = FALSE
    /\ acq = [c \in Callers |-> AcqIdle("none")]
    /\ burst = [i \in Identifiers |-> Fresh]
    /\ rl_ops = 0

\* acquire's timeout when the caller gives none: 30.0 s
DefaultTimeout == 30 * TicksPerSecond

\* id(self) of the limiter object a caller uses.  The calls of one caller
\* go through one object (the one get_rate_limiter() returns in its
\* process); the callers are workers, each with its own object, and the
\* ids of their objects are taken distinct, which is the case that records
\* the most entries (equal ids only make entries coincide).
id_self(c) == c

\* Redis: the members of the key as a command issued now sees them (an
\* expired key is an absent key)
Members(i) ==
    IF key_expire[i] # NoTime /\ now >= key_expire[i] THEN {} ELSE zset[i]

\* Redis: the expiry of the key as a command issued now sees it
Expiry(i) ==
    IF Members(i) = {} THEN NoTime ELSE key_expire[i]

\* mutant of the pruning: nothing is removed
zremrangebyscore_none(members, window_start) == members

\* Redis ZREMRANGEBYSCORE key 0 window_start
zremrangebyscore(members, window_start) ==
    {m \in members : ~(0 <= m[1] /\ m[1] <= window_start)}

\* mutant of the slot test: <= instead of <
has_free_slot_inclusive(current_count) == current_count <= max_requests

\* acquire, line 120: is there a free slot
has_free_slot(current_count) == current_count < max_requests

\* acquire, line 126: int(self.window_seconds * 2), in seconds
expire_seconds == (window_seconds * 2) \div TicksPerSecond

\* acquire, lines 145-151: the time to sleep, in whole ticks (0.01 s, 0.1 s
\* and 0.5 s rounded down to ticks)
wait_time(oldest, current_time) ==
    IF oldest = {}
    THEN (TicksPerSecond * 1) \div 10
    ELSE LET oldest_time == CHOOSE x \in {m[1] : m \in oldest} : TRUE
             until == (oldest_time + window_seconds) - current_time
         IN  IF until * 100 <= TicksPerSecond
             THEN TicksPerSecond \div 100
             ELSE Min(until, TicksPerSecond \div 2)

\* Redis ZRANGE key 0 0 WITHSCORES: the member with the lowest score (ties
\* are broken by member order; only the score is used)
zrange_first(members) ==
    {m \in members : \A n \in members : m[1] <= n[1]}

\* mutant of the give-up test: a blocking call never times out
gives_up_never(me) == ~me.blocking

\* acquire, lines 131-141: with no free slot, the call gives up when it is
\* non-blocking or has waited for timeout.  The time waited is taken from a
\* new reading of the clock (line 135), made after the pipeline has come
\* back.
gives_up(me) == ~me.blocking \/ now - me.start_time >= me.timeout

\* acquire returns res to caller c, whose locals are me
acquire_return(c, me, res) ==
    /\ acq' = [acq EXCEPT ![c] = AcqIdle(res)]
    /\ burst' = [burst EXCEPT ![me.identifier] =
                    [n |-> @.n + 1,
                     g |-> @.g + (IF res THEN 1 ELSE 0),
                     since |-> IF @.n = 0 THEN me.start_time ELSE @.since,
                     last |-> me.current_time,
                     nb |-> @.nb /\ ~me.blocking,
                     freed |-> @.freed]]

\* acquire, lines 102-132: one pass of the loop up to the decision, by
\* caller c whose locals are me.  The pipeline (MULTI/EXEC) prunes and counts
\* in one Redis transaction.  With no free slot a non-blocking call returns
\* false; a blocking one goes on to read the clock again.
acquire_pass(c, me0) ==
    LET i == me0.identifier
        current_time == now
        window_start == current_time - window_seconds
        kept == zremrangebyscore(Members(i), window_start)
        current_count == Cardinality(kept)
        me == [me0 EXCEPT !.current_time = current_time]
    IN
    \/ \* pipe.execute() raises RedisError: fail-open
       /\ store_failed' = TRUE
       /\ acquire_return(c, me, TRUE)
       /\ UNCHANGED <<zset, key_expire>>
    \/ /\ zset' = [zset EXCEPT ![i] = kept]
       /\ key_expire' = [key_expire EXCEPT ![i] =
                            IF kept = {} THEN NoTime ELSE Expiry(i)]
       /\ UNCHANGED store_failed
       /\ IF has_free_slot(current_count)
          THEN /\ acq' = [acq EXCEPT ![c] = [me EXCEPT !.pc = "zadd"]]
               /\ UNCHANGED burst
          ELSE IF ~me.blocking
          THEN acquire_return(c, me, FALSE)
          ELSE /\ acq' = [acq EXCEPT ![c] = [me EXCEPT !.pc = "elapsed"]]
               /\ UNCHANGED burst

\* acquire, lines 98-132: the call and the first pass of the loop
acquire_begin(c, identifier, blocking, timeout) ==
    /\ acq[c].pc = "idle"
    /\ rl_ops < MaxOps
    /\ rl_ops' = rl_ops + 1
    /\ acquire_pass(c, [pc |-> "pass", identifier |-> identifier,
                        blocking |-> blocking, timeout |-> timeout,
                        start_time |-> now, current_time |-> now,
                        wake |-> 0, result |-> "none"])
    /\ UNCHANGED <<now, max_requests, window_seconds>>
    /\ UNCHANGED <<cbVars, ucVars, regVars>>

\* acquire, lines 153 and 102-132: time.sleep(wait_time) returns and the
\* loop makes its next pass
acquire_retry(c) ==
    /\ acq[c].pc = "sleep"
    /\ now >= acq[c].wake
    /\ acquire_pass(c, acq[c])
    /\ UNCHANGED <<now, max_requests, window_seconds, rl_ops>>
    /\ UNCHANGED <<cbVars, ucVars, regVars>>

\* acquire, lines 122-123: ZADD key {request_id: current_time}
acquire_zadd(c) ==
    /\ acq[c].pc = "zadd"
    /\ LET i == acq[c].identifier
           request_id == <<acq[c].current_time, id_self(c)>>
       IN
       \/ /\ store_failed' = TRUE
          /\ acquire_return(c, acq[c], TRUE)
          /\ UNCHANGED <<zset, key_expire>>
       \/ /\ zset' = [zset EXCEPT ![i] = Members(i) \cup {request_id}]
          /\ key_expire' = [key_expire EXCEPT ![i] = Expiry(i)]
          /\ acq' = [acq EXCEPT ![c].pc = "expire"]
          /\ UNCHANGED <<store_failed, burst>>
    /\ UNCHANGED <<now, max_requests, window_seconds, rl_ops>>
    /\ UNCHANGED <<cbVars, ucVars, regVars>>

\* acquire, lines 126-128: EXPIRE key int(window_seconds * 2); return True.
\* Redis deletes the key at once when the time given is not positive.
acquire_expire(c) ==
    /\ acq[c].pc = "expire"
    /\ LET i == acq[c].identifier IN
       \/ /\ store_failed' = TRUE
          /\ UNCHANGED <<zset, key_expire>>
       \/ /\ IF Members(i) = {} \/ expire_seconds <= 0
             THEN /\ zset' = [zset EXCEPT ![i] = {}]
                  /\ key_expire' = [key_expire EXCEPT ![i] = NoTime]
             ELSE /\ zset' = [zset EXCEPT ![i] = Members(i)]
                  /\ key_expire' = [key_expire EXCEPT ![i] =
                                       now + expire_seconds * TicksPerSecond]
          /\ UNCHANGED store_failed
    /\ acquire_return(c, acq[c], TRUE)
    /\ UNCHANGED <<now, max_requests, window_seconds, rl_ops>>
    /\ UNCHANGED <<cbVars, ucVars, regVars>>

\* acquire, lines 135-141: elapsed = time.time() - start_time; the call
\* returns false when elapsed >= timeout and goes on to ZRANGE otherwise
acquire_elapsed(c) ==
    /\ acq[c].pc = "elapsed"
    /\ IF gives_up(acq[c])
       THEN acquire_return(c, acq[c], FALSE)
       ELSE /\ acq' = [acq EXCEPT ![c].pc = "zrange"]
            /\ UNCHANGED burst
    /\ UNCHANGED <<now, max_requests, window_seconds, zset, key_expire,
                   store_failed, rl_ops>>
    /\ UNCHANGED <<cbVars, ucVars, regVars>>

\* mutant of the zrange step: a RedisError there is taken for an empty
\* answer and the call sleeps and retries
acquire_zrange_retry(c) ==
    /\ acq[c].pc = "zrange"
    /\ LET i == acq[c].identifier IN
       \/ /\ store_failed' = TRUE
          /\ acq' = [acq EXCEPT ![c].pc = "sleep",
                                ![c].wake = now + wait_time({},
                                    acq[c].current_time)]
          /\ UNCHANGED burst
       \/ /\ acq' = [acq EXCEPT ![c].pc = "sleep",
                                ![c].wake = now + wait_time(
                                    zrange_first(Members(i)),
                                    acq[c].current_time)]
          /\ UNCHANGED <<store_failed, burst>>
    /\ UNCHANGED <<now, max_requests, window_seconds, zset, key_expire,
                   rl_ops>>
    /\ UNCHANGED <<cbVars, ucVars, regVars>>

\* acquire, lines 145-153: ZRANGE key 0 0 WITHSCORES, then time.sleep
acquire_zrange(c) ==
    /\ acq[c].pc = "zrange"
    /\ LET i == acq[c].identifier IN
       \/ /\ store_failed' = TRUE
          /\ acquire_return(c, acq[c], TRUE)
       \/ /\ acq' = [acq EXCEPT ![c].pc = "sleep",
                                ![c].wake = now + wait_time(
                                    zrange_first(Members(i)),
                                    acq[c].current_time)]
          /\ UNCHANGED <<store_failed, burst>>
    /\ UNCHANGED <<now, max_requests, window_seconds, zset, key_expire,
                   rl_ops>>
    /\ UNCHANGED <<cbVars, ucVars, regVars>>

\* mutant of reset: the key is left in place
RedisRateLimiter_reset_keeps(identifier) ==
    /\ rl_ops < MaxOps
    /\ rl_ops' = rl_ops + 1
    /\ \/ /\ store_failed' = TRUE
          /\ UNCHANGED <<zset, key_expire, burst>>
       \/ /\ burst' = [burst EXCEPT ![identifier] =
                          [Fresh EXCEPT !.freed =
                              Cardinality(Members(identifier))]]
          /\ UNCHANGED <<store_failed, zset, key_expire>>
    /\ UNCHANGED <<now, max_requests, window_seconds, acq>>
    /\ UNCHANGED <<cbVars, ucVars, regVars>>

\* RedisRateLimiter.reset: DEL key; a RedisError is logged and swallowed
RedisRateLimiter_reset(identifier) ==
    /\ rl_ops < MaxOps
    /\ rl_ops' = rl_ops + 1
    /\ \/ /\ store_failed' = TRUE
          /\ UNCHANGED <<zset, key_expire, burst>>
       \/ /\ zset' = [zset EXCEPT ![identifier] = {}]
          /\ key_expire' = [key_expire EXCEPT ![identifier] = NoTime]
          /\ burst' = [burst EXCEPT ![identifier] =
                          [Fresh EXCEPT !.freed =
                              Cardinality(Members(identifier))]]
          /\ UNCHANGED store_failed
    /\ UNCHANGED <<now, max_requests, window_seconds, acq>>
    /\ UNCHANGED <<cbVars, ucVars, regVars>>

\* RedisRateLimiter.get_stats: prunes, then counts; a RedisError gives the
\* empty statistics
RedisRateLimiter_get_stats(identifier) ==
    /\ rl_ops < MaxOps
    /\ rl_ops' = rl_ops + 1
    /\ \/ /\ store_failed' = TRUE
          /\ UNCHANGED <<zset, key_expire>>
       \/ /\ LET kept == zremrangebyscore(Members(identifier),
                                          now - window_seconds)
             IN  /\ zset' = [zset EXCEPT ![identifier] = kept]
                 /\ key_expire' = [key_expire EXCEPT ![identifier] =
                                      IF kept = {} THEN NoTime
                                      ELSE Expiry(identifier)]
          /\ UNCHANGED store_failed
    /\ UNCHANGED <<now, max_requests, window_seconds, acq, burst>>
    /\ UNCHANGED <<cbVars, ucVars, regVars>>

\* the clock advances (limiter behaviours)
TickRL ==
    /\ now < MaxTimeRL
    /\ now' = now + 1
    /\ UNCHANGED <<cbVars, rlVars, ucVars, regVars>>

\* time passes while a caller is inside time.sleep
TickSleep ==
    /\ \E c \in Callers : acq[c].pc = "sleep" /\ now < acq[c].wake
    /\ now' = now + 1
    /\ UNCHANGED <<cbVars, rlVars, ucVars, regVars>>

----------------------------------------------------------------------------
(***************************************************************************)
(* UnifiedCache                                                            *)
(*                                                                         *)
(* Keys and namespaces are sequences of characters, so that _make_key and  *)
(* _file_path can be computed as the code computes them.  A ttl is a whole *)
(* number of seconds (ttl: int), kept in ticks.                            *)
(***************************************************************************)

\* mutant of the memory ceiling: an hour instead of five minutes
memory_ttl_one_hour == 3600 * TicksPerSecond

\* self.memory_ttl = 300
memory_ttl == 300 * TicksPerSecond

\* mutant of the Redis ceiling: ten days instead of one
redis_max_ttl_ten_days == 864000 * TicksPerSecond

\* the 86400 of min(ttl, 86400)
redis_max_ttl == 86400 * TicksPerSecond

\* the (namespace, key) pairs the cache is called with
NamespacedKeys == { << <<"n">>, <<"k">> >> }

\* the values that are cached, and get's default (None)
Values == {"v1", "v2"}
Default == "None"

\* the ttl arguments of set, in ticks
TTLs == {1 * TicksPerSecond, memory_ttl + TicksPerSecond}

\* the instants (in seconds) at which the cache is used
Instants == {0, 300, 301}

\* ttl arguments above the ceiling of the memory tier and above that of
\* the Redis tier, and the instants at which entries so long-lived are used
LongTTLs == {memory_ttl + TicksPerSecond, redis_max_ttl + TicksPerSecond}
LateInstants == {0, 300, 86400}

\* the skip_memory / skip_redis / skip_file arguments of set
NoSkip == [memory |-> FALSE, redis |-> FALSE, file |-> FALSE]
Skips == {NoSkip, [NoSkip EXCEPT !.memory = TRUE]}

\* how writing the cache file can end: written, or pickle.dump raised
\* after open(cache_file, 'wb') had truncated the file
FileOutcomes == {"written", "dump_raises"}

\* dict operations
Put(d, k, v) == [x \in DOMAIN d \cup {k} |-> IF x = k THEN v ELSE d[x]]
Del(d, k) == [x \in DOMAIN d \ {k} |-> d[x]]
EmptyDict == [x \in {} |-> 0]

\* pickle.dumps / pickle.dump
pickle_dumps(obj) == <<"pickle", obj>>

\* a file that pickle.dump left incomplete
Truncated == <<"truncated">>

\* pickle.load raises on such a file
Unpicklable(bytes) == bytes[1] # "pickle"

\* pickle.loads / pickle.load returning the bytes undecoded
pickle_loads_raw(bytes) == bytes

\* pickle.loads / pickle.load
pickle_loads(bytes) == bytes[2]

\* UnifiedCache._make_key
make_key(key, namespace) ==
    IF namespace # <<>> THEN namespace \o <<":">> \o key ELSE key

\* [A-Za-z0-9._-]
SafeChars ==
    {"a", "b", "c", "d", "e", "f", "g", "h", "i", "j", "k", "l", "m",
     "n", "o", "p", "q", "r", "s", "t", "u", "v", "w", "x", "y", "z",
     "A", "B", "C", "D", "E", "F", "G", "H", "I", "J", "K", "L", "M",
     "N", "O", "P", "Q", "R", "S", "T", "U", "V", "W", "X", "Y", "Z",
     "0", "1", "2", "3", "4", "5", "6", "7", "8", "9", ".", "_", "-"}

\* full_key.replace(":", "_")
replace_colon(s) == [i \in 1..Len(s) |-> IF s[i] = ":" THEN "_" ELSE s[i]]

\* re.sub(r"[^A-Za-z0-9._-]+", "_", s): each run of other characters
\* becomes one "_"
RECURSIVE re_sub_unsafe(_)
re_sub_unsafe(s) ==
    IF s = <<>> THEN <<>>
    ELSE IF s[1] \in SafeChars THEN <<s[1]>> \o re_sub_unsafe(Tail(s))
    ELSE IF Len(s) > 1 /\ s[2] \notin SafeChars THEN re_sub_unsafe(Tail(s))
    ELSE <<"_">> \o re_sub_unsafe(Tail(s))

\* UnifiedCache._file_path
file_path(full_key) ==
    <<"cache_">> \o re_sub_unsafe(replace_colon(full_key)) \o <<".pkl">>

\* no get of the second thread is in progress
NoGet ==
    [pc |-> "idle", key |-> <<>>, namespace |-> <<>>, data |-> Default,
     tier |-> "none", ttl |-> 0]

\* mutant of __init__: a failed ping leaves the Redis tier enabled
UnifiedCache_init_keeps_redis(enable_memory_cache, enable_redis_arg, enable_file_cache, ping_ok) ==
    /\ enable_memory = enable_memory_cache
    /\ enable_redis = enable_redis_arg
    /\ enable_file = enable_file_cache
    /\ memory_cache = EmptyDict
    /\ redis_kv = EmptyDict
    /\ cache_files = EmptyDict
    /\ uc_stats = [memory_hits |-> 0, redis_hits |-> 0, file_hits |-> 0,
                   misses |-> 0, sets |-> 0, errors |-> 0]
    /\ uc_last = [op |-> "none", key |-> <<>>, namespace |-> <<>>,
                  result |-> Default, tier |-> "none", remote |-> FALSE,
                  failures |-> {}, failed |-> FALSE]
    /\ uc_written = EmptyDict
    /\ uc_ops = 0
    /\ uc_get = NoGet

\* UnifiedCache.__init__ with the three enable flags; ping_ok tells whether
\* redis_client.ping() succeeded
UnifiedCache_init(enable_memory_cache, enable_redis_arg, enable_file_cache, ping_ok) ==
    /\ enable_memory = enable_memory_cache
    /\ enable_redis = (enable_redis_arg /\ ping_ok)
    /\ enable_file = enable_file_cache
    /\ memory_cache = EmptyDict
    /\ redis_kv = EmptyDict
    /\ cache_files = EmptyDict
    /\ uc_stats = [memory_hits |-> 0, redis_hits |-> 0, file_hits |-> 0,
                   misses |-> 0, sets |-> 0, errors |-> 0]
    /\ uc_last = [op |-> "none", key |-> <<>>, namespace |-> <<>>,
                  result |-> Default, tier |-> "none", remote |-> FALSE,
                  failures |-> {}, failed |-> FALSE]
    /\ uc_written = EmptyDict
    /\ uc_ops = 0
    /\ uc_get = NoGet

\* redis_client.get: the value of a key that exists and has not expired,
\* else None (here the empty sequence; `if cached:` is false for it)
redis_get(full_key) ==
    IF full_key \in DOMAIN redis_kv /\ now < redis_kv[full_key].expire_at
    THEN redis_kv[full_key].value
    ELSE <<>>

\* a setex that stores the value with no time left to live
redis_setex_expired(kv, full_key, seconds, value) ==
    Put(kv, full_key, [value |-> value, expire_at |-> now])

\* redis_client.setex(name, seconds, value) when it succeeds
redis_setex(kv, full_key, seconds, value) ==
    Put(kv, full_key,
        [value |-> value, expire_at |-> now + seconds * TicksPerSecond])

\* int(x) of a number of seconds given in ticks
int_seconds(ticks) == ticks \div TicksPerSecond

\* the cache has MaxCacheOps operations left to begin; the operation is
\* made in one step, during which the get of the second thread stays where
\* it is
CacheOp ==
    /\ uc_ops < MaxCacheOps
    /\ uc_ops' = uc_ops + 1
    /\ UNCHANGED uc_get

\* UnifiedCache.get(key, namespace); get_raises and setex_raises tell
\* whether redis_client.get and the promoting redis_client.setex raise
UnifiedCache_get(key, namespace, get_raises, setex_raises) ==
    LET full_key == make_key(key, namespace)
        \* L1
        in_memory == enable_memory /\ full_key \in DOMAIN memory_cache
        l1_hit == /\ in_memory
                  /\ now - memory_cache[full_key].timestamp
                        < memory_cache[full_key].ttl
        memory1 == IF in_memory /\ ~l1_hit
                   THEN Del(memory_cache, full_key) ELSE memory_cache
        \* L2
        l2_tried == ~l1_hit /\ enable_redis
        l2_error == l2_tried /\ get_raises
        cached == redis_get(full_key)
        l2_hit == l2_tried /\ ~get_raises /\ cached # <<>>
        \* L3
        l3_tried == ~l1_hit /\ ~l2_hit /\ enable_file
        cache_file == file_path(full_key)
        exists == l3_tried /\ cache_file \in DOMAIN cache_files
        l3_error == exists /\ Unpicklable(cache_files[cache_file])
        cached_data == pickle_loads(cache_files[cache_file])
        l3_hit == /\ exists /\ ~l3_error
                  /\ now - cached_data.timestamp < cached_data.ttl
        l3_expired == exists /\ ~l3_error /\ ~l3_hit
        promoted(data) == IF enable_memory
                          THEN Put(memory1, full_key,
                                   [data |-> data, timestamp |-> now,
                                    ttl |-> memory_ttl])
                          ELSE memory1
        errors == (IF l2_error THEN 1 ELSE 0) + (IF l3_error THEN 1 ELSE 0)
        result == IF l1_hit THEN memory_cache[full_key].data
                  ELSE IF l2_hit THEN pickle_loads(cached)
                  ELSE IF l3_hit THEN cached_data.data
                  ELSE Default
    IN  /\ CacheOp
        /\ memory_cache' = IF l2_hit THEN promoted(pickle_loads(cached))
                           ELSE IF l3_hit THEN promoted(cached_data.data)
                           ELSE memory1
        /\ redis_kv' = IF l3_hit /\ enable_redis /\ ~setex_raises
                          /\ int_seconds(Min(cached_data.ttl, redis_max_ttl)) > 0
                       THEN redis_setex(redis_kv, full_key,
                               int_seconds(Min(cached_data.ttl, redis_max_ttl)),
                               pickle_dumps(cached_data.data))
                       ELSE redis_kv
        /\ cache_files' = IF l3_expired THEN Del(cache_files, cache_file)
                          ELSE cache_files
        /\ uc_stats' = [uc_stats EXCEPT
              !.memory_hits = @ + (IF l1_hit THEN 1 ELSE 0),
              !.redis_hits = @ + (IF l2_hit THEN 1 ELSE 0),
              !.file_hits = @ + (IF l3_hit THEN 1 ELSE 0),
              !.errors = @ + errors,
              !.misses = @ + (IF l1_hit \/ l2_hit \/ l3_hit THEN 0 ELSE 1)]
        /\ uc_last' = [op |-> "get", key |-> key, namespace |-> namespace,
                       result |-> result,
                       tier |-> (IF l1_hit THEN "memory"
                                 ELSE IF l2_hit THEN "redis"
                                 ELSE IF l3_hit THEN "file" ELSE "none"),
                       remote |-> (l2_tried \/ (l3_hit /\ enable_redis)),
                       failures |->
                          (IF l2_error \/ (l3_hit /\ enable_redis /\ setex_raises)
                           THEN {"redis"} ELSE {})
                            \cup (IF l3_error THEN {"file"} ELSE {}),
                       failed |-> (l2_error \/ l3_error
                                   \/ (l3_hit /\ enable_redis /\ setex_raises))]
        /\ UNCHANGED <<now, enable_memory, enable_redis, enable_file,
                       uc_written>>
        /\ UNCHANGED <<cbVars, rlVars, regVars>>

\* mutant of set: a failed write to Redis ends the call, uncounted
UnifiedCache_set_stops(key, value, ttl, namespace, skip, setex_raises, file_outcome) ==
    LET full_key == make_key(key, namespace)
        l1 == enable_memory /\ ~skip.memory
        l2 == enable_redis /\ ~skip.redis
        l2_error == l2 /\ setex_raises
        l3 == enable_file /\ ~skip.file /\ ~l2_error
        cache_file == file_path(full_key)
        cached_data == [data |-> value, timestamp |-> now, ttl |-> ttl]
        l3_error == l3 /\ file_outcome # "written"
    IN  /\ CacheOp
        /\ memory_cache' =
              IF l1 THEN Put(memory_cache, full_key,
                             [data |-> value, timestamp |-> now,
                              ttl |-> Min(ttl, memory_ttl)])
              ELSE memory_cache
        /\ redis_kv' =
              IF l2 /\ ~setex_raises
              THEN redis_setex(redis_kv, full_key,
                               int_seconds(Min(ttl, redis_max_ttl)),
                               pickle_dumps(value))
              ELSE redis_kv
        /\ cache_files' =
              IF ~l3 THEN cache_files
              ELSE IF file_outcome = "dump_raises"
                   THEN Put(cache_files, cache_file, Truncated)
              ELSE Put(cache_files, cache_file, pickle_dumps(cached_data))
        /\ uc_stats' = [uc_stats EXCEPT
              !.sets = @ + 1,
              !.errors = @ + (IF l3_error THEN 1 ELSE 0)]
        /\ uc_last' = [op |-> "set", key |-> key, namespace |-> namespace,
                       result |-> value, tier |-> "none", remote |-> l2,
                       failures |-> (IF l2_error THEN {"redis"} ELSE {})
                                      \cup (IF l3_error THEN {"file"} ELSE {}),
                       failed |-> (l2_error \/ l3_error)]
        /\ uc_written' = Put(uc_written, <<namespace, key>>,
              [value |-> value, created_at |-> now, ttl |-> ttl,
               skip |-> skip, failed |-> (l2_error \/ l3_error)])
        /\ UNCHANGED <<now, enable_memory, enable_redis, enable_file>>
        /\ UNCHANGED <<cbVars, rlVars, regVars>>

\* UnifiedCache.set(key, value, ttl, namespace, skip_memory, skip_redis,
\* skip_file); setex_raises tells whether redis_client.setex raises, and
\* file_outcome how writing the file ends
UnifiedCache_set(key, value, ttl, namespace, skip, setex_raises, file_outcome) ==
    LET full_key == make_key(key, namespace)
        l1 == enable_memory /\ ~skip.memory
        l2 == enable_redis /\ ~skip.redis
        l3 == enable_file /\ ~skip.file
        redis_ttl == Min(ttl, redis_max_ttl)
        cache_file == file_path(full_key)
        cached_data == [data |-> value, timestamp |-> now, ttl |-> ttl]
        l2_error == l2 /\ setex_raises
        l3_error == l3 /\ file_outcome # "written"
    IN  /\ CacheOp
        /\ memory_cache' =
              IF l1 THEN Put(memory_cache, full_key,
                             [data |-> value, timestamp |-> now,
                              ttl |-> Min(ttl, memory_ttl)])
              ELSE memory_cache
        /\ redis_kv' =
              IF l2 /\ ~setex_raises
              THEN redis_setex(redis_kv, full_key, int_seconds(redis_ttl),
                               pickle_dumps(value))
              ELSE redis_kv
        /\ cache_files' =
              IF ~l3 THEN cache_files
              ELSE IF file_outcome = "dump_raises"
                   THEN Put(cache_files, cache_file, Truncated)
              ELSE Put(cache_files, cache_file, pickle_dumps(cached_data))
        /\ uc_stats' = [uc_stats EXCEPT
              !.sets = @ + 1,
              !.errors = @ + (IF l2_error THEN 1 ELSE 0)
                           + (IF l3_error THEN 1 ELSE 0)]
        /\ uc_last' = [op |-> "set", key |-> key, namespace |-> namespace,
                       result |-> value, tier |-> "none", remote |-> l2,
                       failures |-> (IF l2_error THEN {"redis"} ELSE {})
                                      \cup (IF l3_error THEN {"file"} ELSE {}),
                       failed |-> (l2_error \/ l3_error)]
        /\ uc_written' = Put(uc_written, <<namespace, key>>,
              [value |-> value, created_at |-> now, ttl |-> ttl,
               skip |-> skip, failed |-> (l2_error \/ l3_error)])
        /\ UNCHANGED <<now, enable_memory, enable_redis, enable_file>>
        /\ UNCHANGED <<cbVars, rlVars, regVars>>

\* mutant of delete: the file is left in place
UnifiedCache_delete_keeps_file(key, namespace, delete_raises) ==
    LET full_key == make_key(key, namespace)
    IN  /\ CacheOp
        /\ memory_cache' = IF enable_memory THEN Del(memory_cache, full_key)
                           ELSE memory_cache
        /\ redis_kv' = IF enable_redis /\ ~delete_raises
                       THEN Del(redis_kv, full_key) ELSE redis_kv
        /\ uc_last' = [op |-> "delete", key |-> key, namespace |-> namespace,
                       result |-> Default, tier |-> "none",
                       remote |-> enable_redis,
                       failures |-> (IF enable_redis /\ delete_raises
                                     THEN {"redis"} ELSE {}),
                       failed |-> (enable_redis /\ delete_raises)]
        /\ UNCHANGED <<now, enable_memory, enable_redis, enable_file,
                       cache_files, uc_stats, uc_written>>
        /\ UNCHANGED <<cbVars, rlVars, regVars>>

\* UnifiedCache.delete(key, namespace); delete_raises tells whether
\* redis_client.delete raises
UnifiedCache_delete(key, namespace, delete_raises) ==
    LET full_key == make_key(key, namespace)
    IN  /\ CacheOp
        /\ memory_cache' = IF enable_memory THEN Del(memory_cache, full_key)
                           ELSE memory_cache
        /\ redis_kv' = IF enable_redis /\ ~delete_raises
                       THEN Del(redis_kv, full_key) ELSE redis_kv
        /\ cache_files' = IF enable_file
                          THEN Del(cache_files, file_path(full_key))
                          ELSE cache_files
        /\ uc_last' = [op |-> "delete", key |-> key, namespace |-> namespace,
                       result |-> Default, tier |-> "none",
                       remote |-> enable_redis,
                       failures |-> (IF enable_redis /\ delete_raises
                                     THEN {"redis"} ELSE {}),
                       failed |-> (enable_redis /\ delete_raises)]
        /\ UNCHANGED <<now, enable_memory, enable_redis, enable_file,
                       uc_stats, uc_written>>
        /\ UNCHANGED <<cbVars, rlVars, regVars>>

\* mutant of clear: the memory map is left as it is
UnifiedCache_clear_keeps_memory(namespace, flushdb_raises) ==
    LET all == namespace = <<>>
        flushed == all /\ enable_redis /\ ~flushdb_raises
    IN  /\ CacheOp
        /\ redis_kv' = IF flushed THEN EmptyDict ELSE redis_kv
        /\ zset' = IF flushed THEN [i \in Identifiers |-> {}] ELSE zset
        /\ key_expire' = IF flushed THEN [i \in Identifiers |-> NoTime]
                         ELSE key_expire
        /\ cache_files' = IF all /\ enable_file THEN EmptyDict
                          ELSE cache_files
        /\ uc_last' = [op |-> "clear", key |-> <<>>, namespace |-> namespace,
                       result |-> Default, tier |-> "none",
                       remote |-> (all /\ enable_redis),
                       failures |-> (IF all /\ enable_redis /\ flushdb_raises
                                     THEN {"redis"} ELSE {}),
                       failed |-> (all /\ enable_redis /\ flushdb_raises)]
        /\ UNCHANGED <<now, enable_memory, enable_redis, enable_file,
                       memory_cache, uc_stats, uc_written>>
        /\ UNCHANGED <<max_requests, window_seconds, store_failed, acq,
                       burst, rl_ops>>
        /\ UNCHANGED <<cbVars, regVars>>

\* UnifiedCache.clear(namespace); flushdb_raises tells whether
\* redis_client.flushdb raises.  FLUSHDB empties the whole database, the
\* limiter's sorted sets included.
UnifiedCache_clear(namespace, flushdb_raises) ==
    LET all == namespace = <<>>
        flushed == all /\ enable_redis /\ ~flushdb_raises
    IN  /\ CacheOp
        /\ memory_cache' = IF all /\ enable_memory THEN EmptyDict
                           ELSE memory_cache
        /\ redis_kv' = IF flushed THEN EmptyDict ELSE redis_kv
        /\ zset' = IF flushed THEN [i \in Identifiers |-> {}] ELSE zset
        /\ key_expire' = IF flushed THEN [i \in Identifiers |-> NoTime]
                         ELSE key_expire
        /\ cache_files' = IF all /\ enable_file THEN EmptyDict
                          ELSE cache_files
        /\ uc_last' = [op |-> "clear", key |-> <<>>, namespace |-> namespace,
                       result |-> Default, tier |-> "none",
                       remote |-> (all /\ enable_redis),
                       failures |-> (IF all /\ enable_redis /\ flushdb_raises
                                     THEN {"redis"} ELSE {}),
                       failed |-> (all /\ enable_redis /\ flushdb_raises)]
        /\ UNCHANGED <<now, enable_memory, enable_redis, enable_file,
                       uc_stats, uc_written>>
        /\ UNCHANGED <<max_requests, window_seconds, store_failed, acq,
                       burst, rl_ops>>
        /\ UNCHANGED <<cbVars, regVars>>

\* mutant of cleanup_expired: > instead of >=
UnifiedCache_cleanup_expired_strict ==
    LET stale(f) ==
            \/ Unpicklable(cache_files[f])
            \/ now - pickle_loads(cache_files[f]).timestamp
                   > pickle_loads(cache_files[f]).ttl
        kept == {f \in DOMAIN cache_files : ~stale(f)}
    IN  /\ CacheOp
        /\ cache_files' = IF enable_file
                          THEN [f \in kept |-> cache_files[f]]
                          ELSE cache_files
        /\ uc_last' = [op |-> "cleanup_expired", key |-> <<>>,
                       namespace |-> <<>>, result |-> Default,
                       tier |-> "none", remote |-> FALSE, failures |-> {},
                       failed |-> FALSE]
        /\ UNCHANGED <<now, enable_memory, enable_redis, enable_file,
                       memory_cache, redis_kv, uc_stats, uc_written>>
        /\ UNCHANGED <<cbVars, rlVars, regVars>>

\* UnifiedCache.cleanup_expired
UnifiedCache_cleanup_expired ==
    LET stale(f) ==
            \/ Unpicklable(cache_files[f])
            \/ now - pickle_loads(cache_files[f]).timestamp
                   >= pickle_loads(cache_files[f]).ttl
        kept == {f \in DOMAIN cache_files : ~stale(f)}
    IN  /\ CacheOp
        /\ cache_files' = IF enable_file
                          THEN [f \in kept |-> cache_files[f]]
                          ELSE cache_files
        /\ uc_last' = [op |-> "cleanup_expired", key |-> <<>>,
                       namespace |-> <<>>, result |-> Default,
                       tier |-> "none", remote |-> FALSE, failures |-> {},
                       failed |-> FALSE]
        /\ UNCHANGED <<now, enable_memory, enable_redis, enable_file,
                       memory_cache, redis_kv, uc_stats, uc_written>>
        /\ UNCHANGED <<cbVars, rlVars, regVars>>

\* the clock advances to a later instant (cache behaviours)
TickUC ==
    /\ \E t \in Instants :
          /\ t * TicksPerSecond > now
          /\ now' = t * TicksPerSecond
    /\ UNCHANGED <<cbVars, rlVars, ucVars, regVars>>

----------------------------------------------------------------------------
(***************************************************************************)
(* get_circuit_breaker and the module-level dict _circuit_breakers.  The   *)
(* function takes no lock; its three lines are three steps of the calling *)
(* thread.                                                                 *)
(***************************************************************************)

\* the names breakers are asked for under
Names == {"poizon_api", "openai_api"}

\* _circuit_breakers = {}
registry_init ==
    /\ circuit_breakers = [n \in Names |-> 0]
    /\ created = 0
    /\ gcb = [t \in Threads |-> [pc |-> "idle", name |-> "poizon_api"]]
    /\ received = [n \in Names |-> {}]
    /\ gcb_calls = 0

\* get_circuit_breaker, line 268: if name not in _circuit_breakers
get_circuit_breaker_check(t, name) ==
    /\ gcb[t].pc = "idle"
    /\ gcb_calls < MaxGets
    /\ gcb_calls' = gcb_calls + 1
    /\ gcb' = [gcb EXCEPT ![t] =
                  [pc |-> IF circuit_breakers[name] = 0
                          THEN "create" ELSE "return",
                   name |-> name]]
    /\ UNCHANGED <<circuit_breakers, created, received>>
    /\ UNCHANGED <<now, cbVars, rlVars, ucVars>>

\* get_circuit_breaker, line 269: _circuit_breakers[name] =
\* CircuitBreaker(name=name, **kwargs)
get_circuit_breaker_create(t) ==
    /\ gcb[t].pc = "create"
    /\ created' = created + 1
    /\ circuit_breakers' = [circuit_breakers EXCEPT ![gcb[t].name] =
                               created + 1]
    /\ gcb' = [gcb EXCEPT ![t].pc = "return"]
    /\ UNCHANGED <<received, gcb_calls>>
    /\ UNCHANGED <<now, cbVars, rlVars, ucVars>>

\* get_circuit_breaker, line 270: return _circuit_breakers[name]
get_circuit_breaker_return(t) ==
    /\ gcb[t].pc = "return"
    /\ received' = [received EXCEPT ![gcb[t].name] =
                       @ \cup {circuit_breakers[gcb[t].name]}]
    /\ gcb' = [gcb EXCEPT ![t].pc = "idle"]
    /\ UNCHANGED <<circuit_breakers, created, gcb_calls>>
    /\ UNCHANGED <<now, cbVars, rlVars, ucVars>>

----------------------------------------------------------------------------
(***************************************************************************)
(* Specifications.  Each one runs one component; the others stay as        *)
(* constructed.                                                            *)
(***************************************************************************)

\* a limiter nobody uses
LimiterUnused ==
    /\ max_requests = 1
    /\ window_seconds = 1
    /\ zset = [i \in Identifiers |-> {}]
    /\ key_expire = [i \in Identifiers |-> NoTime]
    /\ store_failed = FALSE
    /\ acq = [c \in Callers |-> AcqIdle("none")]
    /\ burst = [i \in Identifiers |-> Fresh]
    /\ rl_ops = 0

\* a breaker nobody uses
BreakerUnused ==
    /\ CircuitBreaker_init
    /\ failure_threshold = 1
    /\ recovery_timeout = 1

\* the clock advances to a later instant (long-lived entries)
TickLate ==
    /\ \E t \in LateInstants :
          /\ t * TicksPerSecond > now
          /\ now' = t * TicksPerSecond
    /\ UNCHANGED <<cbVars, rlVars, ucVars, regVars>>

\* a cache nobody uses
CacheUnused == UnifiedCache_init(TRUE, TRUE, TRUE, TRUE)

\* The circuit breaker, called from NumThreads threads.
InitCB ==
    /\ now = 0
    /\ CircuitBreaker_init
    /\ LimiterUnused
    /\ CacheUnused
    /\ registry_init

NextCB ==
    \/ \E t \in Threads : call_enter(t)
    \/ \E t \in Threads : call_success(t)
    \/ \E t \in Threads : call_failure(t)
    \/ \E t \in Threads : call_other_exception(t)
    \/ CircuitBreaker_reset
    \/ Tick

SpecCB == InitCB /\ [][NextCB]_vars

\* The rate limiter, its operations called one at a time.  The callers of
\* one process share the limiter object (get_rate_limiter), so calls made
\* one after the other are the calls of caller 1.
NoneInAcquire == \A c \in Callers : acq[c].pc = "idle"

InitRL ==
    /\ now = 0
    /\ BreakerUnused
    /\ RedisRateLimiter_init
    /\ CacheUnused
    /\ registry_init

NextRL ==
    \/ \E i \in Identifiers :
          NoneInAcquire /\ acquire_begin(1, i, FALSE, DefaultTimeout)
    \/ \E i \in Identifiers, to \in 1..MaxTimeout :
          NoneInAcquire /\ acquire_begin(1, i, TRUE, to)
    \/ acquire_zadd(1)
    \/ acquire_expire(1)
    \/ acquire_elapsed(1)
    \/ acquire_zrange(1)
    \/ acquire_retry(1)
    \/ \E i \in Identifiers : NoneInAcquire /\ RedisRateLimiter_reset(i)
    \/ \E i \in Identifiers : NoneInAcquire /\ RedisRateLimiter_get_stats(i)
    \/ TickRL

SpecRL == InitRL /\ [][NextRL]_vars

\* The rate limiter with resets: non-blocking acquire calls and reset, one
\* call at a time.  rl_ops starts one below zero, which lets this
\* specification make one operation more than MaxOps: a budget is used up,
\* reset, and asked again.
InitRLR ==
    /\ now = 0
    /\ BreakerUnused
    /\ max_requests \in 1..MaxRequests
    /\ window_seconds \in 1..MaxWindow
    /\ zset = [i \in Identifiers |-> {}]
    /\ key_expire = [i \in Identifiers |-> NoTime]
    /\ store_failed = FALSE
    /\ acq = [c \in Callers |-> AcqIdle("none")]
    /\ burst = [i \in Identifiers |-> Fresh]
    /\ rl_ops = 0 - 1
    /\ CacheUnused
    /\ registry_init

NextRLR ==
    \/ \E i \in Identifiers :
          NoneInAcquire /\ acquire_begin(1, i, FALSE, DefaultTimeout)
    \/ acquire_zadd(1)
    \/ acquire_expire(1)
    \/ \E i \in Identifiers : NoneInAcquire /\ RedisRateLimiter_reset(i)
    \/ TickRL

SpecRLR == InitRLR /\ [][NextRLR]_vars

\* The rate limiter called by NumCallers callers at once on one identifier,
\* without blocking, with the longest window; as in SpecRLR, one operation
\* more than MaxOps.
InitRLC ==
    /\ now = 0
    /\ BreakerUnused
    /\ max_requests \in 1..MaxRequests
    /\ window_seconds = MaxWindow
    /\ zset = [i \in Identifiers |-> {}]
    /\ key_expire = [i \in Identifiers |-> NoTime]
    /\ store_failed = FALSE
    /\ acq = [c \in Callers |-> AcqIdle("none")]
    /\ burst = [i \in Identifiers |-> Fresh]
    /\ rl_ops = 0 - 1
    /\ CacheUnused
    /\ registry_init

NextRLC ==
    \/ \E c \in Callers : acquire_begin(c, "poizon_api", FALSE, DefaultTimeout)
    \/ \E c \in Callers : acquire_zadd(c)
    \/ \E c \in Callers : acquire_expire(c)
    \/ TickRL

SpecRLC == InitRLC /\ [][NextRLC]_vars

\* The rate limiter called with blocking = True only, one call at a time.
\* The calling thread keeps running: each step of a call is taken once it
\* is possible, and time passes during time.sleep.
NextRLB ==
    \/ \E i \in Identifiers, to \in 1..MaxTimeout :
          NoneInAcquire /\ acquire_begin(1, i, TRUE, to)
    \/ acquire_zadd(1)
    \/ acquire_expire(1)
    \/ acquire_elapsed(1)
    \/ acquire_zrange(1)
    \/ acquire_retry(1)
    \/ TickRL
    \/ TickSleep

SpecRLB ==
    /\ InitRL
    /\ [][NextRLB]_vars
    /\ WF_vars(acquire_zadd(1))
    /\ WF_vars(acquire_expire(1))
    /\ WF_vars(acquire_elapsed(1))
    /\ WF_vars(acquire_zrange(1))
    /\ WF_vars(acquire_retry(1))
    /\ WF_vars(TickSleep)

\* The cache of one process, its operations called one at a time.
InitUC ==
    /\ now = 0
    /\ BreakerUnused
    /\ LimiterUnused
    /\ \E m, r, f, ping_ok \in BOOLEAN : UnifiedCache_init(m, r, f, ping_ok)
    /\ registry_init

\* a Redis command can raise only where the Redis tier is in use
MayRaise == IF enable_redis THEN BOOLEAN ELSE {FALSE}

NextUC ==
    \/ \E nk \in NamespacedKeys, get_raises, setex_raises \in MayRaise :
          UnifiedCache_get(nk[2], nk[1], get_raises, setex_raises)
    \/ \E nk \in NamespacedKeys, value \in Values, ttl \in TTLs,
          skip \in Skips, setex_raises \in MayRaise,
          file_outcome \in FileOutcomes :
          UnifiedCache_set(nk[2], value, ttl, nk[1], skip, setex_raises,
                           file_outcome)
    \/ \E nk \in NamespacedKeys, delete_raises \in MayRaise :
          UnifiedCache_delete(nk[2], nk[1], delete_raises)
    \/ \E namespace \in {<<>>, <<"n">>}, flushdb_raises \in MayRaise :
          UnifiedCache_clear(namespace, flushdb_raises)
    \/ UnifiedCache_cleanup_expired
    \/ TickUC

SpecUC == InitUC /\ [][NextUC]_vars

\* The cache with one value to store: every operation, every skip flag and
\* every failure of a tier, where the claims do not compare values.
NextUCF ==
    \/ \E nk \in NamespacedKeys, get_raises, setex_raises \in MayRaise :
          UnifiedCache_get(nk[2], nk[1], get_raises, setex_raises)
    \/ \E nk \in NamespacedKeys, ttl \in TTLs, skip \in Skips,
          setex_raises \in MayRaise, file_outcome \in FileOutcomes :
          UnifiedCache_set(nk[2], "v1", ttl, nk[1], skip, setex_raises,
                           file_outcome)
    \/ \E nk \in NamespacedKeys, delete_raises \in MayRaise :
          UnifiedCache_delete(nk[2], nk[1], delete_raises)
    \/ \E namespace \in {<<>>, <<"n">>}, flushdb_raises \in MayRaise :
          UnifiedCache_clear(namespace, flushdb_raises)
    \/ UnifiedCache_cleanup_expired
    \/ TickUC

SpecUCF == InitUC /\ [][NextUCF]_vars

\* The cache constructed with enable_redis=True while Redis cannot be
\* reached: the ping of __init__ fails.
InitUCR ==
    /\ now = 0
    /\ BreakerUnused
    /\ LimiterUnused
    /\ \E m, f \in BOOLEAN : UnifiedCache_init(m, TRUE, f, FALSE)
    /\ registry_init

SpecUCR == InitUCR /\ [][NextUCF]_vars

\* The cache holding entries that outlive the ceilings of the upper tiers:
\* only get and set without skip flags, over a day.
NextUCL ==
    \/ \E nk \in NamespacedKeys, get_raises, setex_raises \in MayRaise :
          UnifiedCache_get(nk[2], nk[1], get_raises, setex_raises)
    \/ \E nk \in NamespacedKeys, value \in Values, ttl \in LongTTLs,
          setex_raises \in MayRaise, file_outcome \in FileOutcomes :
          UnifiedCache_set(nk[2], value, ttl, nk[1], NoSkip, setex_raises,
                           file_outcome)
    \/ TickLate

SpecUCL == InitUC /\ [][NextUCL]_vars

\* The registry of breakers, asked from NumThreads threads.
InitREG ==
    /\ now = 0
    /\ BreakerUnused
    /\ LimiterUnused
    /\ CacheUnused
    /\ registry_init

NextREG ==
    \/ \E t \in Threads, name \in Names : get_circuit_breaker_check(t, name)
    \/ \E t \in Threads : get_circuit_breaker_create(t)
    \/ \E t \in Threads : get_circuit_breaker_return(t)

SpecREG == InitREG /\ [][NextREG]_vars

----------------------------------------------------------------------------
(***************************************************************************)
(* Circuit breaker: the steps the claims speak of.                         *)
(***************************************************************************)

LastChange == stats.state_changes[Len(stats.state_changes)]

\* a thread passes line 95 of call()
Enters == stats'.total_requests = stats.total_requests + 1

\* the entering call is refused: CircuitBreakerError, func not entered
Rejected ==
    /\ Enters
    /\ invoked' = invoked
    /\ pc' = pc
    /\ stats'.rejected_requests = stats.rejected_requests + 1
    /\ \E t \in Threads :
          /\ pc[t] = "idle"
          /\ outcome'[t] = "CircuitBreakerError"
          /\ \A u \in Threads \ {t} : outcome'[u] = outcome[u]

\* the entering call goes on to run func
Admitted ==
    /\ Enters
    /\ invoked' = invoked + 1
    /\ stats'.rejected_requests = stats.rejected_requests
    /\ \E t \in Threads : pc[t] = "idle" /\ pc'[t] = "calling"

\* the entering call is let through as the HALF_OPEN probe
AdmittedAsProbe ==
    /\ Admitted
    /\ state' = HALF_OPEN
    /\ \E t \in Threads : pc[t] = "idle" /\ pc'[t] = "calling" /\ probe'[t]

\* a call's func returned / raised an expected_exception, and the second
\* critical section of call() ran
Succeeds == stats'.successful_requests = stats.successful_requests + 1
Fails == stats'.failed_requests = stats.failed_requests + 1

\* the breaker is as constructed and has seen k calls, all of which failed
OnlyFailures(k) ==
    /\ resets = 0
    /\ stats.total_requests = k
    /\ stats.failed_requests = k

\* C1: from a fresh breaker with failure_threshold = N, calls that all fail
\* leave the breaker CLOSED before the Nth failure and OPEN on the Nth, and
\* the (N+1)th call, made while now - last_failure_time < recovery_timeout,
\* is rejected without entering the wrapped function.
C1_Threshold ==
    /\ [](\A k \in 0..failure_threshold :
            OnlyFailures(k) =>
                state = (IF k = failure_threshold THEN OPEN ELSE CLOSED))
    /\ [][(/\ OnlyFailures(failure_threshold)
           /\ now - last_failure_time < recovery_timeout
           /\ Enters) => Rejected]_vars

C1_Witness ==
    /\ failure_threshold >= 2
    /\ resets = 0
    /\ stats.failed_requests = failure_threshold
    /\ stats.rejected_requests = 1
    /\ stats.total_requests = failure_threshold + 1
    /\ invoked = failure_threshold
    /\ state = OPEN

\* C2: while OPEN with now - last_failure_time < recovery_timeout, a call is
\* rejected: func is not entered, the caller gets CircuitBreakerError,
\* rejected_requests grows by one, and state, failure_count and
\* last_failure_time stay as they are.
C2_OpenRejects ==
    [][(/\ state = OPEN
        /\ last_failure_time # NoTime
        /\ now - last_failure_time < recovery_timeout
        /\ Enters)
       => (/\ Rejected
           /\ state' = state
           /\ failure_count' = failure_count
           /\ last_failure_time' = last_failure_time)]_vars

C2_Witness ==
    /\ state = OPEN
    /\ stats.rejected_requests >= 1
    /\ now - last_failure_time < recovery_timeout
    /\ \E t \in Threads : outcome[t] = "CircuitBreakerError"

\* C6 as stated: counting from the time T at which the breaker became OPEN,
\* a call before T + recovery_timeout is rejected and a call at or after it
\* is let through as the HALF_OPEN probe.
C6_FromOpeningTime ==
    [][(state = OPEN /\ Enters)
       => IF now < openedAt + recovery_timeout
          THEN Rejected
          ELSE AdmittedAsProbe]_vars

\* C6 amended: counting from last_failure_time T (the latest counted
\* failure, which is later than the opening time when a call already in
\* flight fails after the breaker opened), a call before
\* T + recovery_timeout is rejected and a call at or after it moves the
\* breaker to HALF_OPEN and is itself let through as the probe.
C6_FromLastFailure ==
    [][(state = OPEN /\ Enters)
       => IF last_failure_time # NoTime
             /\ now < last_failure_time + recovery_timeout
          THEN Rejected
          ELSE AdmittedAsProbe]_vars

C6_Witness ==
    /\ state = HALF_OPEN
    /\ last_failure_time > openedAt
    /\ now = last_failure_time + recovery_timeout
    /\ \E t \in Threads : probe[t] /\ pc[t] = "calling"

\* C7: a call that succeeds while the breaker is HALF_OPEN leaves it CLOSED
\* with failure_count = 0.
C7_ProbeSuccessCloses ==
    [][(state = HALF_OPEN /\ Succeeds)
       => (state' = CLOSED /\ failure_count' = 0)]_vars

C7_Witness ==
    /\ stats.state_changes # <<>>
    /\ LastChange = [from |-> "HALF_OPEN", to |-> "CLOSED"]
    /\ failure_threshold >= 2
    /\ state = CLOSED
    /\ failure_count = 0
    /\ stats.successful_requests = 1

\* C8: a call that fails while the breaker is HALF_OPEN leaves it OPEN with
\* last_failure_time = now, whatever failure_threshold is, and a call that
\* follows while now - last_failure_time < recovery_timeout is rejected.
C8_ProbeFailureReopens ==
    /\ [][(state = HALF_OPEN /\ Fails)
          => (/\ state' = OPEN
              /\ last_failure_time' = now
              /\ LastChange' = [from |-> "HALF_OPEN", to |-> "OPEN"])]_vars
    /\ [][(/\ state = OPEN
           /\ LastChange = [from |-> "HALF_OPEN", to |-> "OPEN"]
           /\ now - last_failure_time < recovery_timeout
           /\ Enters) => Rejected]_vars

C8_Witness ==
    /\ state = OPEN
    /\ stats.state_changes # <<>>
    /\ LastChange = [from |-> "HALF_OPEN", to |-> "OPEN"]
    /\ now >= recovery_timeout
    /\ now - last_failure_time < recovery_timeout
    /\ resets = 0
    /\ stats.failed_requests = 2
    /\ stats.rejected_requests = 1
    /\ stats.total_requests = 3

\* C9: while the breaker is HALF_OPEN and its probe is still running, no
\* other call enters the wrapped function.
C9_SingleProbe ==
    [][(/\ state = HALF_OPEN
        /\ \E t \in Threads : probe[t] /\ pc[t] = "calling")
       => invoked' = invoked]_vars

----------------------------------------------------------------------------
(***************************************************************************)
(* Rate limiter: the claims.                                               *)
(***************************************************************************)

\* the entries of identifier i that are recorded and inside the window
InWindow(i) == {m \in Members(i) : m[1] >= now - window_seconds}

\* a pass of acquire on identifier i refuses the caller
Refuses(i) ==
    /\ burst'[i].n = burst[i].n + 1
    /\ burst'[i].g = burst[i].g

\* C3: on a fresh identifier, with the store reachable, of M + 1
\* non-blocking acquire calls made inside one window the first M return
\* true and the (M+1)th returns false; the refused call returns in its first
\* pass and records no entry.
C3_Budget ==
    /\ [](\A i \in Identifiers :
            (/\ ~store_failed
             /\ burst[i].nb
             /\ burst[i].n <= max_requests + 1
             /\ burst[i].last - burst[i].since < window_seconds)
            => burst[i].g = Min(burst[i].n, max_requests))
    /\ [][\A i \in Identifiers :
            (~store_failed' /\ burst'[i].nb /\ Refuses(i))
            => (/\ acq[1].pc = "idle"
                /\ burst'[i].last = now
                /\ zset'[i] \subseteq zset[i])]_vars

\* C10: with acquire calls made one at a time, the recorded entries of an
\* identifier whose timestamp is >= now - window_seconds never number more
\* than max_requests.
C10_WindowBound ==
    \A i \in Identifiers : Cardinality(InWindow(i)) <= max_requests

C10_Witness ==
    \E i \in Identifiers :
        /\ Cardinality(InWindow(i)) = max_requests
        /\ \E m \in Members(i) : m[1] = now - window_seconds
        /\ burst[i].g = max_requests
        /\ NoneInAcquire

----------------------------------------------------------------------------
(***************************************************************************)
(* Properties of the cache.                                                *)
(***************************************************************************)

\* the number of get calls answered so far
Lookups ==
    uc_stats.memory_hits + uc_stats.redis_hits + uc_stats.file_hits
        + uc_stats.misses

\* this step is a get(key, namespace)
GetOf(namespace, key) ==
    /\ Lookups' = Lookups + 1
    /\ uc_last'.op = "get"
    /\ uc_last'.key = key
    /\ uc_last'.namespace = namespace

\* the operation made last was a set(key, value, ttl, namespace) without
\* skip flags, and no time has passed since
JustSet(namespace, key) ==
    /\ uc_last.op = "set"
    /\ uc_last.key = key
    /\ uc_last.namespace = namespace
    /\ <<namespace, key>> \in DOMAIN uc_written
    /\ uc_written[<<namespace, key>>].skip = NoSkip
    /\ uc_written[<<namespace, key>>].created_at = now

AnyTierEnabled == enable_memory \/ enable_redis \/ enable_file

C5_LogicalExpiry ==
    [][ \A nk \in NamespacedKeys :
          (/\ nk \in DOMAIN uc_written
           /\ uc_written[nk].skip = NoSkip
           /\ ~uc_written[nk].failed
           /\ now - uc_written[nk].created_at >= uc_written[nk].ttl
           /\ GetOf(nk[1], nk[2]))
             => /\ uc_last'.result = Default
                /\ uc_stats'.misses = uc_stats.misses + 1 ]_vars

----------------------------------------------------------------------------
(***************************************************************************)
(* Circuit breaker: bookkeeping, locking and reset.                        *)
(***************************************************************************)

FuncRaises(e) ==
    \E t \in Threads :
        /\ pc[t] = "calling"
        /\ pc'[t] = "idle"
        /\ outcome'[t] = e

\* _on_failure has run
FailureLogicRan ==
    /\ Fails
    /\ failure_count' = failure_count + 1
    /\ last_failure_time' = now

\* every call has been counted once in total_requests: it was either
\* rejected or let into func
EachCallCountedOnce ==
    stats.total_requests = invoked + stats.rejected_requests

\* C15: every call increments total_requests by exactly 1, and whatever
\* exception func raises reaches the caller only after failed_requests was
\* incremented and the failure logic has run.
C15_AnyExceptionCounted ==
    /\ []EachCallCountedOnce
    /\ [][(FuncRaises("expected_exception") \/ FuncRaises("other_exception"))
          => FailureLogicRan]_vars

\* C15 amended: every call increments total_requests by exactly 1; an
\* exception of the expected_exception type reaches the caller only after
\* failed_requests was incremented and the failure logic has run; any other
\* exception reaches the caller without anything being counted.
C15_ExpectedExceptionCounted ==
    /\ []EachCallCountedOnce
    /\ [][FuncRaises("expected_exception") => FailureLogicRan]_vars
    /\ [][FuncRaises("other_exception")
          => (/\ stats' = stats
              /\ failure_count' = failure_count
              /\ last_failure_time' = last_failure_time
              /\ state' = state)]_vars

\* one call raised an expected exception and was counted, another raised
\* some other exception and was not
C15_Witness ==
    /\ \E t, u \in Threads :
          /\ outcome[t] = "expected_exception"
          /\ outcome[u] = "other_exception"
    /\ stats.total_requests = 2
    /\ stats.failed_requests = 1
    /\ failure_count = 1
    /\ last_failure_time = now
    /\ invoked = 2

\* the name under which state_changes records a state
StateName(st) ==
    IF st = CLOSED THEN "CLOSED" ELSE IF st = OPEN THEN "OPEN" ELSE "HALF_OPEN"

\* C16: transitions are linearized: every recorded state change starts
\* from the state the breaker held immediately before it and ends in the
\* state it holds after it, so no transition is recorded twice.
C16_Linearized ==
    [][Len(stats'.state_changes) = Len(stats.state_changes) + 1
       => (/\ LastChange'.from = StateName(state)
           /\ LastChange'.to = StateName(state')
           /\ state' # state)]_vars

C19_ResetAnyTime ==
    /\ [](stats.total_requests + resets < MaxCalls
             => ENABLED CircuitBreaker_reset)
    /\ [][resets' = resets + 1
          => (/\ state' = CLOSED
              /\ failure_count' = 0
              /\ last_failure_time' = NoTime)]_vars

\* reset() has just run while a HALF_OPEN probe was in flight and after a
\* failure had been counted
C19_Witness ==
    /\ resets = 1
    /\ state = CLOSED
    /\ failure_count = 0
    /\ last_failure_time = NoTime
    /\ stats.failed_requests >= 1
    /\ stats.state_changes # <<>>
    /\ LastChange.to = "HALF_OPEN"
    /\ \E t \in Threads : pc[t] = "calling" /\ probe[t]

----------------------------------------------------------------------------
(***************************************************************************)
(* The registry of breakers.                                               *)
(***************************************************************************)

\* C18: all callers of get_circuit_breaker with the same name receive the
\* same breaker object, also when the first calls for the name come from
\* several threads at the same time.
C18_OnePerName == \A n \in Names : Cardinality(received[n]) <= 1

----------------------------------------------------------------------------
(***************************************************************************)
(* Rate limiter: pruning, store failures and termination.                  *)
(***************************************************************************)

\* the time at which the acquire that returns in this step was called
StartOfReturning == IF acq[1].pc = "idle" THEN now ELSE acq[1].start_time

\* an acquire on identifier i returns in this step
Returns(i) == burst'[i].n = burst[i].n + 1

\* C11: after a successful acquire at time t on an identifier with no
\* other traffic, an acquire made later than t + window_seconds returns
\* true.
C11_SlotFreed ==
    [][\A i \in Identifiers :
          (/\ burst[i].n = 1
           /\ burst[i].g = 1
           /\ Returns(i)
           /\ StartOfReturning > burst[i].last + window_seconds)
             => burst'[i].g = 2]_vars

\* two acquires were granted on one identifier with a budget of one, the
\* second called more than a window after the first; the key's own expiry
\* is not zero
C11_Witness ==
    \E i \in Identifiers :
        /\ ~store_failed
        /\ max_requests = 1
        /\ burst[i].n = 2
        /\ burst[i].g = 2
        /\ burst[i].nb
        /\ burst[i].last > burst[i].since + window_seconds
        /\ expire_seconds > 0

\* a step of an acquire call (and not of reset or get_stats)
AcquireStep ==
    acq[1].pc # "idle" \/ acq'[1].pc # "idle" \/ burst' # burst

\* C12: when a command sent to the store fails during acquire, at whichever
\* command and blocking or not, acquire returns true at once: it sends no
\* further command and raises nothing.
C12_FailOpen ==
    [][(~store_failed /\ store_failed' /\ AcquireStep)
       => (/\ acq'[1].pc = "idle"
           /\ zset' = zset
           /\ key_expire' = key_expire
           /\ \E i \in Identifiers : Returns(i) /\ burst'[i].g = burst[i].g + 1)]_vars

\* a blocking acquire called with the budget used up met a store failure
\* and has returned true in the same tick, leaving more grants than the
\* budget
C12_Witness ==
    \E i \in Identifiers :
        /\ store_failed
        /\ acq[1].pc = "idle"
        /\ ~burst[i].nb
        /\ burst[i].n = 2
        /\ burst[i].g = 2
        /\ max_requests = 1
        /\ Cardinality(InWindow(i)) = 1
        /\ burst[i].last = burst[i].since

\* C13: a blocking acquire always returns.  While no slot is free it
\* sleeps and retries; a pass that finds no free slot once the call has
\* waited for timeout does not go to sleep again and returns false; so
\* every call that has begun comes to its end.
C13_AlwaysReturns ==
    /\ [][(/\ acq[1].pc = "sleep"
           /\ acq'[1].pc # "sleep")
          => (/\ acq'[1].pc \in {"zadd", "idle", "elapsed"}
              /\ acq'[1].pc = "idle" => store_failed')]_vars
    /\ [][(/\ acq[1].pc = "elapsed"
           /\ acq'[1].pc # "elapsed"
           /\ now - acq[1].start_time >= acq[1].timeout)
          => (/\ acq'[1].pc = "idle"
              /\ Refuses(acq[1].identifier))]_vars
    /\ (acq[1].pc # "idle") ~> (acq[1].pc = "idle")

\* a blocking acquire slept, woke up with the budget still used up and
\* its timeout reached, and returned false
C13_Witness ==
    \E i \in Identifiers :
        /\ ~store_failed
        /\ acq[1].pc = "idle"
        /\ burst[i].n = 2
        /\ burst[i].g = 1
        /\ ~burst[i].nb
        /\ burst[i].last > burst[i].since
        /\ Cardinality(InWindow(i)) = max_requests

----------------------------------------------------------------------------
(***************************************************************************)
(* Cache: promotion.                                                       *)
(***************************************************************************)

\* the memory entry a hit at a lower tier leaves for full_key
MemoryCopy(full_key) ==
    /\ full_key \in DOMAIN memory_cache'
    /\ memory_cache'[full_key] =
          [data |-> uc_last'.result, timestamp |-> now,
           ttl |-> 300 * TicksPerSecond]

\* the Redis entry a hit at the file tier leaves for full_key
RedisCopy(full_key, file_ttl) ==
    /\ full_key \in DOMAIN redis_kv'
    /\ redis_kv'[full_key] =
          [value |-> pickle_dumps(uc_last'.result),
           expire_at |-> now + Min(file_ttl, 86400 * TicksPerSecond)]

\* only the counter named changes among the hit and miss counters
OnlyCounts(tier) ==
    /\ uc_stats'.memory_hits =
          uc_stats.memory_hits + (IF tier = "memory" THEN 1 ELSE 0)
    /\ uc_stats'.redis_hits =
          uc_stats.redis_hits + (IF tier = "redis" THEN 1 ELSE 0)
    /\ uc_stats'.file_hits =
          uc_stats.file_hits + (IF tier = "file" THEN 1 ELSE 0)
    /\ uc_stats'.misses = uc_stats.misses

\* a get of nk that follows a get of nk answered by Redis or the file,
\* while the copy made in memory is younger than the memory ceiling
FollowingGet(nk) ==
    /\ uc_last.op = "get"
    /\ uc_last.key = nk[2]
    /\ uc_last.namespace = nk[1]
    /\ uc_last.tier \in {"redis", "file"}
    /\ enable_memory
    /\ GetOf(nk[1], nk[2])
    /\ make_key(nk[2], nk[1]) \in DOMAIN memory_cache
    /\ now - memory_cache[make_key(nk[2], nk[1])].timestamp
          < 300 * TicksPerSecond

\* the ttl stored in the file of full_key
FileTTL(full_key) == pickle_loads(cache_files[file_path(full_key)]).ttl

\* C20: a get that hits at Redis or at the file copies the value into
\* every enabled tier above the hit tier, each copy limited by the ceiling
\* of that tier, and increments the counter of the hit tier; a following
\* get of the key is served from memory, whatever happens to the lower
\* tiers.
C20_Promotion ==
    [][\A nk \in NamespacedKeys :
        LET full_key == make_key(nk[2], nk[1]) IN
        /\ (GetOf(nk[1], nk[2]) /\ uc_last'.tier = "redis")
              => (/\ OnlyCounts("redis")
                  /\ enable_memory => MemoryCopy(full_key))
        /\ (GetOf(nk[1], nk[2]) /\ uc_last'.tier = "file")
              => (/\ OnlyCounts("file")
                  /\ enable_memory => MemoryCopy(full_key)
                  /\ enable_redis
                        => RedisCopy(full_key, FileTTL(full_key)))
        /\ FollowingGet(nk)
              => (/\ OnlyCounts("memory")
                  /\ uc_last'.result = uc_last.result)]_vars

\* C20 amended: as C20, except that the copy into Redis is made when the
\* write succeeds; when it raises, the error is dropped and Redis is left
\* as it was.
C20_PromotionUnlessWriteFails ==
    [][\A nk \in NamespacedKeys :
        LET full_key == make_key(nk[2], nk[1]) IN
        /\ (GetOf(nk[1], nk[2]) /\ uc_last'.tier = "redis")
              => (/\ OnlyCounts("redis")
                  /\ enable_memory => MemoryCopy(full_key))
        /\ (GetOf(nk[1], nk[2]) /\ uc_last'.tier = "file")
              => (/\ OnlyCounts("file")
                  /\ enable_memory => MemoryCopy(full_key)
                  /\ (enable_redis /\ ~uc_last'.failed)
                        => RedisCopy(full_key, FileTTL(full_key))
                  /\ enable_redis
                        => \/ RedisCopy(full_key, FileTTL(full_key))
                           \/ redis_kv' = redis_kv)
        /\ FollowingGet(nk)
              => (/\ OnlyCounts("memory")
                  /\ uc_last'.result = uc_last.result)]_vars

\* a value set for more than a day was found in the file a day later,
\* copied to Redis for 86400 s and to memory, and the get that followed was
\* answered from memory
C20_Witness ==
    \E nk \in NamespacedKeys :
        LET full_key == make_key(nk[2], nk[1]) IN
        /\ enable_memory /\ enable_redis /\ enable_file
        /\ nk \in DOMAIN uc_written
        /\ uc_written[nk].ttl > 86400 * TicksPerSecond
        /\ uc_stats.file_hits = 1
        /\ uc_stats.memory_hits = 1
        /\ uc_last.op = "get"
        /\ uc_last.tier = "memory"
        /\ uc_last.result = uc_written[nk].value
        /\ full_key \in DOMAIN redis_kv
        /\ full_key \in DOMAIN memory_cache
        /\ redis_kv[full_key].expire_at =
              memory_cache[full_key].timestamp + 86400 * TicksPerSecond

----------------------------------------------------------------------------
(***************************************************************************)
(* Cache: failures of a tier, delete, clear and the sweep of the files.    *)
(***************************************************************************)

\* the entries set(key, value, ttl, namespace) called now leaves in the
\* memory tier, in Redis and in the file
MemoryEntry(value, ttl) ==
    [data |-> value, timestamp |-> now,
     ttl |-> Min(ttl, 300 * TicksPerSecond)]

RedisEntry(value, ttl) ==
    [value |-> pickle_dumps(value),
     expire_at |-> now + Min(ttl, 86400 * TicksPerSecond)]

FileEntry(value, ttl) ==
    pickle_dumps([data |-> value, timestamp |-> now, ttl |-> ttl])

\* C21: set writes every enabled tier that is not skipped, each on its
\* own: a write to Redis or to the file that fails keeps no other write
\* from being made, the call comes to its end, and each failure adds one to
\* the errors counter.
C21_IndependentWrites ==
    [][uc_stats'.sets # uc_stats.sets =>
       LET nk == <<uc_last'.namespace, uc_last'.key>>
           full_key == make_key(nk[2], nk[1])
           value == uc_written'[nk].value
           ttl == uc_written'[nk].ttl
           skip == uc_written'[nk].skip
           failures == uc_last'.failures
       IN
       /\ uc_last'.op = "set"
       /\ uc_stats'.sets = uc_stats.sets + 1
       /\ (enable_memory /\ ~skip.memory)
             => /\ full_key \in DOMAIN memory_cache'
                /\ memory_cache'[full_key] = MemoryEntry(value, ttl)
       /\ (enable_redis /\ ~skip.redis /\ "redis" \notin failures)
             => /\ full_key \in DOMAIN redis_kv'
                /\ redis_kv'[full_key] = RedisEntry(value, ttl)
       /\ (enable_file /\ ~skip.file /\ "file" \notin failures)
             => /\ file_path(full_key) \in DOMAIN cache_files'
                /\ cache_files'[file_path(full_key)] = FileEntry(value, ttl)
       /\ uc_stats'.errors = uc_stats.errors + Cardinality(failures)]_vars

\* a set whose write to Redis failed has written the memory tier and the
\* file all the same, and counted one error
C21_Witness ==
    \E nk \in NamespacedKeys :
        LET full_key == make_key(nk[2], nk[1]) IN
        /\ enable_memory /\ enable_redis /\ enable_file
        /\ uc_last.op = "set"
        /\ uc_last.failed
        /\ uc_stats.sets = 1
        /\ uc_stats.errors = 1
        /\ nk \in DOMAIN uc_written
        /\ uc_written[nk].skip = NoSkip
        /\ full_key \in DOMAIN memory_cache
        /\ memory_cache[full_key].data = uc_written[nk].value
        /\ full_key \notin DOMAIN redis_kv
        /\ file_path(full_key) \in DOMAIN cache_files
        /\ ~Unpicklable(cache_files[file_path(full_key)])
        /\ pickle_loads(cache_files[file_path(full_key)]).data
              = uc_written[nk].value

\* the cache makes a call in this step
CacheCall == uc_ops' # uc_ops

\* C22: an exception raised by a Redis command of get, set, delete or
\* clear, or of the promotion of a file hit, is caught: the call comes to
\* its end, the errors counter grows by one for it, and Redis is left as it
\* was while the other tiers are served as if Redis had missed.
C22_RemoteErrorsCounted ==
    [][(CacheCall /\ "redis" \in uc_last'.failures)
       => (/\ uc_stats'.errors
                = uc_stats.errors + Cardinality(uc_last'.failures)
           /\ redis_kv' = redis_kv
           /\ uc_last'.op \in {"get", "set", "delete", "clear"})]_vars

\* no tier holds an entry for (namespace, key)
Absent(namespace, key) ==
    /\ make_key(key, namespace) \notin DOMAIN memory_cache
    /\ make_key(key, namespace) \notin DOMAIN redis_kv
    /\ file_path(make_key(key, namespace)) \notin DOMAIN cache_files

\* this step is a delete(key, namespace) none of whose operations raised
DeleteOf(namespace, key) ==
    /\ CacheCall
    /\ uc_last'.op = "delete"
    /\ uc_last'.key = key
    /\ uc_last'.namespace = namespace
    /\ uc_last'.failures = {}

\* this step is a set(key, ..., namespace)
SetOf(namespace, key) ==
    /\ uc_stats'.sets # uc_stats.sets
    /\ uc_last'.key = key
    /\ uc_last'.namespace = namespace

\* C23: after a delete(key, namespace) during which every tier could be
\* reached, no enabled tier holds the key; it stays so until the next set
\* of the key, and every get(key, namespace) made meanwhile returns the
\* default.
C23_DeletedUntilSet ==
    [][\A nk \in NamespacedKeys :
         /\ DeleteOf(nk[1], nk[2]) => Absent(nk[1], nk[2])'
         /\ (Absent(nk[1], nk[2]) /\ ~SetOf(nk[1], nk[2]))
               => Absent(nk[1], nk[2])'
         /\ (Absent(nk[1], nk[2]) /\ GetOf(nk[1], nk[2]))
               => (/\ uc_last'.result = Default
                   /\ uc_last'.tier = "none"
                   /\ uc_stats'.misses = uc_stats.misses + 1)]_vars

\* a delete has just removed, from the three tiers, the value that a set
\* had stored in all of them at this same instant
C23_Witness ==
    \E nk \in NamespacedKeys :
        /\ enable_memory /\ enable_redis /\ enable_file
        /\ uc_last.op = "delete"
        /\ uc_last.key = nk[2]
        /\ uc_last.namespace = nk[1]
        /\ uc_last.failures = {}
        /\ nk \in DOMAIN uc_written
        /\ uc_written[nk].skip = NoSkip
        /\ ~uc_written[nk].failed
        /\ uc_written[nk].created_at = now
        /\ uc_ops = 2
        /\ Absent(nk[1], nk[2])

\* C24: a cache constructed while Redis could not be reached never sends
\* a command to Redis afterwards, and get, set and delete go on serving the
\* memory tier and the file: set writes them, a get that follows returns
\* the value set, delete removes the key.
C24_RemoteOffForGood ==
    /\ [](/\ ~enable_redis
          /\ ~uc_last.remote
          /\ "redis" \notin uc_last.failures
          /\ redis_kv = EmptyDict
          /\ uc_stats.redis_hits = 0)
    /\ [][\A nk \in NamespacedKeys :
            LET full_key == make_key(nk[2], nk[1]) IN
            /\ (SetOf(nk[1], nk[2]) /\ enable_memory
                   /\ ~uc_written'[nk].skip.memory)
                  => /\ full_key \in DOMAIN memory_cache'
                     /\ memory_cache'[full_key].data = uc_written'[nk].value
            /\ (SetOf(nk[1], nk[2]) /\ enable_file /\ ~uc_last'.failed)
                  => /\ file_path(full_key) \in DOMAIN cache_files'
                     /\ pickle_loads(cache_files'[file_path(full_key)]).data
                           = uc_written'[nk].value
            /\ (/\ JustSet(nk[1], nk[2])
                /\ GetOf(nk[1], nk[2])
                /\ enable_memory \/ (enable_file /\ ~uc_last.failed))
                  => /\ uc_last'.result = uc_written[nk].value
                     /\ uc_last'.tier \in {"memory", "file"}
            /\ DeleteOf(nk[1], nk[2]) => Absent(nk[1], nk[2])']_vars

\* with Redis given up at construction and the memory tier disabled, a
\* value that was set has been returned by get from the file
C24_Witness ==
    \E nk \in NamespacedKeys :
        /\ ~enable_redis /\ ~enable_memory /\ enable_file
        /\ uc_last.op = "get"
        /\ uc_last.tier = "file"
        /\ ~uc_last.remote
        /\ nk \in DOMAIN uc_written
        /\ uc_last.result = uc_written[nk].value
        /\ uc_stats.file_hits = 1
        /\ uc_stats.errors = 0
        /\ redis_kv = EmptyDict

\* C25: after any sequence of set and get calls, every entry of the memory
\* tier carries a ttl of at most 300 s and every entry of Redis was written
\* to expire at most 24 h after it was written, whatever ttl was asked for
\* and whether set or a promotion wrote it.
C25_Ceilings ==
    /\ \A k \in DOMAIN memory_cache :
          /\ memory_cache[k].ttl <= 300 * TicksPerSecond
          /\ memory_cache[k].timestamp <= now
    /\ \A k \in DOMAIN redis_kv :
          redis_kv[k].expire_at <= now + 86400 * TicksPerSecond

\* a value set for more than a day has just been promoted from the file,
\* a day after the set: the copy in memory carries 300 s, the copy in Redis
\* 24 h
C25_Witness ==
    \E nk \in NamespacedKeys :
        LET full_key == make_key(nk[2], nk[1]) IN
        /\ uc_last.op = "get"
        /\ uc_last.tier = "file"
        /\ nk \in DOMAIN uc_written
        /\ uc_written[nk].ttl > 86400 * TicksPerSecond
        /\ now > uc_written[nk].created_at
        /\ full_key \in DOMAIN memory_cache
        /\ memory_cache[full_key].ttl = 300 * TicksPerSecond
        /\ memory_cache[full_key].timestamp = now
        /\ full_key \in DOMAIN redis_kv
        /\ redis_kv[full_key].expire_at = now + 86400 * TicksPerSecond

\* this step is a clear() with no namespace
ClearAll ==
    /\ CacheCall
    /\ uc_last'.op = "clear"
    /\ uc_last'.namespace = <<>>

\* every tier is empty
AllEmpty ==
    /\ memory_cache = EmptyDict
    /\ redis_kv = EmptyDict
    /\ cache_files = EmptyDict

ServedByGet(f) ==
    /\ ~Unpicklable(cache_files[f])
    /\ now - pickle_loads(cache_files[f]).timestamp
          < pickle_loads(cache_files[f]).ttl

\* the file f can be read and now - created_at >= ttl
ExpiredFile(f) ==
    /\ ~Unpicklable(cache_files[f])
    /\ now - pickle_loads(cache_files[f]).timestamp
          >= pickle_loads(cache_files[f]).ttl

\* this step is a cleanup_expired()
CleanupStep == CacheCall /\ uc_last'.op = "cleanup_expired"

\* C27: cleanup_expired removes the files for which now - created_at >=
\* ttl and the files that cannot be read, and no other: a file that get
\* would still serve stays as it is; the memory tier and Redis are left
\* unchanged.
C27_SweepsExpiredFiles ==
    [][(CleanupStep /\ enable_file)
       => (/\ DOMAIN cache_files' \subseteq DOMAIN cache_files
           /\ \A f \in DOMAIN cache_files :
                 /\ ExpiredFile(f) => f \notin DOMAIN cache_files'
                 /\ Unpicklable(cache_files[f])
                       => f \notin DOMAIN cache_files'
                 /\ ServedByGet(f)
                       => /\ f \in DOMAIN cache_files'
                          /\ cache_files'[f] = cache_files[f]
           /\ memory_cache' = memory_cache
           /\ redis_kv' = redis_kv
           /\ uc_stats' = uc_stats)]_vars

\* a cleanup_expired made at set time + ttl has just removed the file of
\* the value, and left the copy in Redis
C27_Witness ==
    \E nk \in NamespacedKeys :
        /\ enable_file /\ enable_redis
        /\ uc_last.op = "cleanup_expired"
        /\ uc_ops = 2
        /\ nk \in DOMAIN uc_written
        /\ ~uc_written[nk].failed
        /\ ~uc_written[nk].skip.file
        /\ now - uc_written[nk].created_at = uc_written[nk].ttl
        /\ cache_files = EmptyDict
        /\ make_key(nk[2], nk[1]) \in DOMAIN redis_kv

\* C28: a get that finds the file of the key corrupted or unreadable
\* treats it as expired: the call comes to its end without a hit at the
\* file tier, and the file is deleted.
C28_CorruptedFileDeleted ==
    [][\A nk \in NamespacedKeys :
         (GetOf(nk[1], nk[2]) /\ "file" \in uc_last'.failures)
            => (/\ uc_last'.tier = "none"
                /\ uc_last'.result = Default
                /\ uc_stats'.file_hits = uc_stats.file_hits
                /\ file_path(make_key(nk[2], nk[1]))
                       \notin DOMAIN cache_files')]_vars

----------------------------------------------------------------------------
(***************************************************************************)
(* Rate limiter: reset and the request ids.                                *)
(***************************************************************************)

\* C29: reset(identifier), with the store reachable, removes every entry
\* recorded for the identifier and leaves the entries of every other
\* identifier as they were; the next acquire on the identifier returns
\* true, even if its budget was used up just before.
C29_ResetFreesBudget ==
    [][\A i \in Identifiers :
         /\ (RedisRateLimiter_reset(i) /\ ~store_failed')
               => (/\ zset'[i] = {}
                   /\ key_expire'[i] = NoTime
                   /\ \A j \in Identifiers \ {i} :
                         /\ zset'[j] = zset[j]
                         /\ key_expire'[j] = key_expire[j])
         /\ (~store_failed' /\ burst[i].n = 0 /\ Returns(i))
               => burst'[i].g = 1]_vars

\* a budget of one was used up, reset at the same instant removed the
\* entry, and the acquire that followed, still at that instant, was
\* granted
C29_Witness ==
    \E i \in Identifiers :
        /\ ~store_failed
        /\ max_requests = 1
        /\ burst[i].freed = 1
        /\ burst[i].n = 1
        /\ burst[i].g = 1
        /\ now = 0
        /\ NoneInAcquire
        /\ Cardinality(Members(i)) = 1

\* the ZADD of a granted acquire succeeds in this step
Records == acq[1].pc = "zadd" /\ acq'[1].pc = "expire"

\* C30: every acquire that is granted with the store reachable records
\* one new entry, under a request id that no entry of the identifier
\* carries yet: the recorded entries of the identifier grow by exactly one,
\* also when two grants carry the same timestamp.
C30_OneEntryPerGrant ==
    [][(Records /\ ~store_failed')
       => LET i == acq[1].identifier IN
          /\ zset'[i] \ Members(i) # {}
          /\ Cardinality(zset'[i]) = Cardinality(Members(i)) + 1]_vars

----------------------------------------------------------------------------
(***************************************************************************)
(* Rate limiter: concurrent callers.                                       *)
(***************************************************************************)

\* C31: with NumCallers callers inside acquire at once on one identifier
\* and the store reachable, each caller prunes and counts in one step, and
\* the entries recorded inside the current window never number more than
\* max_requests + NumCallers - 1; the entries above max_requests are no
\* more than the callers that counted a free slot before the others had
\* inserted.
C31_BoundedOvershoot ==
    /\ [](~store_failed
            => \A i \in Identifiers :
                 Cardinality(InWindow(i)) <= max_requests + NumCallers - 1)
    /\ [][\A c \in Callers :
            (acq[c].pc = "idle" /\ acq'[c].pc = "zadd" /\ ~store_failed')
              => LET i == acq'[c].identifier IN
                 /\ zset'[i] = zremrangebyscore(Members(i),
                                                now - window_seconds)
                 /\ Cardinality(zset'[i]) < max_requests]_vars

\* two callers counted a free slot of a budget of one before either had
\* inserted, and both entries are now inside the window
C31_Witness ==
    /\ ~store_failed
    /\ max_requests = 1
    /\ Cardinality(InWindow("poizon_api")) = max_requests + NumCallers - 1
    /\ \A c \in Callers : acq[c].pc = "idle"
    /\ burst["poizon_api"].g = NumCallers
    /\ burst["poizon_api"].n = NumCallers

----------------------------------------------------------------------------
(***************************************************************************)
(* Cache: freshness, interference between keys, the shared Redis.          *)
(***************************************************************************)

\* C32: with every tier enabled, whatever set calls were made on a
\* (namespace, key), with skip flags or with a failing write among them, a
\* get returns the value of the most recent set or the default, never an
\* older value.
C32_NeverStale ==
    [][\A nk \in NamespacedKeys :
         (/\ enable_memory /\ enable_redis /\ enable_file
          /\ nk \in DOMAIN uc_written
          /\ GetOf(nk[1], nk[2]))
            => uc_last'.result \in {uc_written[nk].value, Default}]_vars

----------------------------------------------------------------------------
(***************************************************************************)
(* Circuit breaker: the count of failures, and recovery.                   *)
(***************************************************************************)

\* C38: with failure_threshold >= 1, in every state failure_count >= 0,
\* and failure_count < failure_threshold whenever the state is CLOSED,
\* whatever the interleaving of calls and resets.
C38_CountBelowThreshold ==
    failure_threshold >= 1
      => /\ failure_count >= 0
         /\ state = CLOSED => failure_count < failure_threshold

\* after a reset, failures have brought the count of a CLOSED breaker to
\* one below the threshold while a call is running
C38_Witness ==
    /\ state = CLOSED
    /\ resets > 0
    /\ failure_count > 0
    /\ failure_count = failure_threshold - 1
    /\ \E t \in Threads : pc[t] = "calling"

----------------------------------------------------------------------------
(***************************************************************************)
(* The breaker under a function that recovers.  A call may still raise    *)
(* while a later call can be made and the clock can still run for one     *)
(* more recovery_timeout; after that func only returns.  A caller turned  *)
(* away by the open breaker comes back when time has advanced, so a call  *)
(* begins in OPEN only once the recovery timeout has elapsed.  Callers    *)
(* keep calling, func keeps returning and the clock keeps running: weak   *)
(* fairness on the three.                                                  *)
(***************************************************************************)
CanStillRecover ==
    /\ stats.total_requests + resets < MaxCalls
    /\ now + recovery_timeout <= MaxTime

NextCBR ==
    \/ \E t \in Threads : (state = OPEN => should_attempt_reset) /\ call_enter(t)
    \/ \E t \in Threads : call_success(t)
    \/ \E t \in Threads : CanStillRecover /\ call_failure(t)
    \/ CircuitBreaker_reset
    \/ Tick

SpecCBR ==
    /\ InitCB
    /\ [][NextCBR]_vars
    /\ WF_vars(\E t \in Threads : (state = OPEN => should_attempt_reset) /\ call_enter(t))
    /\ \A t \in Threads : WF_vars(call_success(t))
    /\ WF_vars(Tick)

\* C33: once func only succeeds and callers keep calling while time advances,
\* the breaker ends up CLOSED and stays CLOSED; unless reset() is called, it
\* leaves OPEN only into HALF_OPEN, by a call that begins when at least
\* recovery_timeout has passed since the last failure, and it leaves
\* HALF_OPEN into CLOSED only when a call returns.
C33_Recovers ==
    /\ <>[](state = CLOSED)
    /\ [][(state = OPEN /\ state' # OPEN /\ resets' = resets)
            => /\ state' = HALF_OPEN
               /\ now - last_failure_time >= recovery_timeout
               /\ \E t \in Threads : pc[t] = "idle" /\ pc'[t] = "calling"]_vars
    /\ [][(state = HALF_OPEN /\ state' = CLOSED /\ resets' = resets)
            => \E t \in Threads : pc[t] = "calling" /\ outcome'[t] = "result"]_vars

\* the breaker has opened, has been probed after the timeout, and is CLOSED
\* again with no reset() involved
C33_Witness ==
    /\ state = CLOSED
    /\ resets = 0
    /\ openedAt # NoTime
    /\ stats.failed_requests > 0
    /\ Len(stats.state_changes) >= 3
    /\ stats.state_changes[Len(stats.state_changes)] = [from |-> "HALF_OPEN", to |-> "CLOSED"]
    /\ stats.state_changes[Len(stats.state_changes) - 1] = [from |-> "OPEN", to |-> "HALF_OPEN"]
    /\ \A t \in Threads : pc[t] = "idle"

\* C39: the expiry that a granted acquire sets on the key is never shorter
\* than the window: when the EXPIRE command has succeeded, the key holds the
\* entry just recorded and does not expire before window_seconds have passed.
C39_ExpiryCoversWindow ==
    [][\A c \in Callers :
          (acq[c].pc = "expire" /\ acq'[c].pc = "idle" /\ ~store_failed')
            => LET i == acq[c].identifier IN
               /\ zset'[i] # {}
               /\ key_expire'[i] # NoTime
               /\ key_expire'[i] >= now + window_seconds]_vars

----------------------------------------------------------------------------
(***************************************************************************)
(* The cache and the limiter on one Redis database: both default to        *)
(* redis://localhost:6379/0.  One worker makes non-blocking acquire calls  *)
(* and, between them, uses a cache whose three tiers are enabled.          *)
(***************************************************************************)
InitSH ==
    /\ now = 0
    /\ BreakerUnused
    /\ RedisRateLimiter_init
    /\ UnifiedCache_init(TRUE, TRUE, TRUE, TRUE)
    /\ registry_init

NextSH ==
    \/ \E i \in Identifiers :
          NoneInAcquire /\ acquire_begin(1, i, FALSE, DefaultTimeout)
    \/ acquire_zadd(1)
    \/ acquire_expire(1)
    \/ \E nk \in NamespacedKeys :
          /\ NoneInAcquire
          /\ UnifiedCache_set(nk[2], "v1", 1 * TicksPerSecond, nk[1], NoSkip, FALSE, "written")
    \/ \E nk \in NamespacedKeys :
          NoneInAcquire /\ UnifiedCache_delete(nk[2], nk[1], FALSE)
    \/ \E flushdb_raises \in BOOLEAN :
          NoneInAcquire /\ UnifiedCache_clear(<<>>, flushdb_raises)
    \/ TickRL

SpecSH == InitSH /\ [][NextSH]_vars

\* C36: a cache operation leaves the limiter's window entries as they are:
\* the entries Redis holds for each identifier and the key's expiry are the
\* same after the operation as before it, so an identifier whose budget is
\* used up still has max_requests entries in its window after clear().
C36_CacheLeavesLimiter ==
    [][CacheCall
         => \A i \in Identifiers :
               /\ zset'[i] = zset[i]
               /\ key_expire'[i] = key_expire[i]
               /\ (Cardinality(InWindow(i)) >= max_requests
                     => Cardinality({m \in zset'[i] : m[1] >= now - window_seconds}) >= max_requests)]_vars

\* One caller makes blocking acquire calls whose timeout is one tick more
\* than the window.
NextRLT ==
    \/ \E i \in Identifiers :
          NoneInAcquire /\ acquire_begin(1, i, TRUE, window_seconds + 1)
    \/ acquire_zadd(1)
    \/ acquire_expire(1)
    \/ acquire_elapsed(1)
    \/ acquire_zrange(1)
    \/ acquire_retry(1)
    \/ TickRL
    \/ TickSleep

SpecRLT ==
    /\ InitRL
    /\ [][NextRLT]_vars
    /\ WF_vars(acquire_zadd(1))
    /\ WF_vars(acquire_expire(1))
    /\ WF_vars(acquire_elapsed(1))
    /\ WF_vars(acquire_zrange(1))
    /\ WF_vars(acquire_retry(1))
    /\ WF_vars(TickSleep)

\* C37: a blocking acquire made with a timeout greater than window_seconds,
\* by the only caller and with the store reachable, never returns false: it
\* comes to its end, and when it does it has been granted.
C37_BlockingGranted ==
    /\ [][(/\ acq[1].pc # "idle"
           /\ acq'[1].pc = "idle"
           /\ acq[1].blocking
           /\ acq[1].timeout > window_seconds
           /\ ~store_failed')
          => burst'[acq[1].identifier].g = burst[acq[1].identifier].g + 1]_vars
    /\ (acq[1].pc # "idle" /\ acq[1].timeout > window_seconds)
          ~> (acq[1].pc = "idle")

----------------------------------------------------------------------------
(***************************************************************************)
(* The cache used with keys whose composite keys or file names coincide.   *)
(***************************************************************************)

\* three pairs: namespace "n" with key "k", and no namespace with the keys
\* "n:k" and "n_k"
CollidingKeys ==
    { << <<"n">>, <<"k">> >>,
      << <<>>, <<"n", ":", "k">> >>,
      << <<>>, <<"n", "_", "k">> >> }

NextUCK ==
    \/ \E nk \in CollidingKeys :
          UnifiedCache_get(nk[2], nk[1], FALSE, FALSE)
    \/ \E nk \in CollidingKeys :
          UnifiedCache_set(nk[2], "v1", 1 * TicksPerSecond, nk[1], NoSkip, FALSE, "written")
    \/ \E nk \in CollidingKeys :
          UnifiedCache_delete(nk[2], nk[1], FALSE)

SpecUCK == InitUC /\ [][NextUCK]_vars

\* the entry under k is the same in the dictionaries d and e
SameEntry(d, e, k) ==
    /\ k \in DOMAIN d <=> k \in DOMAIN e
    /\ k \in DOMAIN d => d[k] = e[k]

\* C35: a set or a delete on one (namespace, key) pair leaves the entries of
\* every other pair as they are in the three tiers, the file of the other
\* pair included, so that a get of the other pair returns what it returned
\* before.
C35_PairsApart ==
    [][\A p, q \in CollidingKeys :
          (p # q /\ (SetOf(p[1], p[2]) \/ DeleteOf(p[1], p[2])))
            => LET full_key == make_key(q[2], q[1]) IN
               /\ SameEntry(memory_cache, memory_cache', full_key)
               /\ SameEntry(redis_kv, redis_kv', full_key)
               /\ SameEntry(cache_files, cache_files', file_path(full_key))]_vars

----------------------------------------------------------------------------
(***************************************************************************)
(* A get of a second thread, in two steps.  UnifiedCache takes no lock, so *)
(* the operations of the first thread can run between the hit of that get  *)
(* at Redis or at the file and its copy of the value to the upper tiers.   *)
(***************************************************************************)

\* UnifiedCache.get, lines 137-183: the second thread misses the memory
\* tier and hits Redis or the file; the hit is counted and the value is in
\* its locals
UnifiedCache_get_hit(key, namespace) ==
    LET full_key == make_key(key, namespace)
        in_memory == enable_memory /\ full_key \in DOMAIN memory_cache
        l1_hit == /\ in_memory
                  /\ now - memory_cache[full_key].timestamp
                        < memory_cache[full_key].ttl
        cached == redis_get(full_key)
        l2_hit == ~l1_hit /\ enable_redis /\ cached # <<>>
        cache_file == file_path(full_key)
        exists == /\ ~l1_hit /\ ~l2_hit /\ enable_file
                  /\ cache_file \in DOMAIN cache_files
        cached_data == pickle_loads(cache_files[cache_file])
        l3_hit == /\ exists /\ ~Unpicklable(cache_files[cache_file])
                  /\ now - cached_data.timestamp < cached_data.ttl
    IN  /\ uc_get.pc = "idle"
        /\ Lookups < MaxCacheOps
        /\ l2_hit \/ l3_hit
        /\ memory_cache' = IF in_memory THEN Del(memory_cache, full_key)
                           ELSE memory_cache
        /\ uc_stats' = [uc_stats EXCEPT
              !.redis_hits = @ + (IF l2_hit THEN 1 ELSE 0),
              !.file_hits = @ + (IF l3_hit THEN 1 ELSE 0)]
        /\ uc_get' = [pc |-> "copy", key |-> key, namespace |-> namespace,
                      data |-> IF l2_hit THEN pickle_loads(cached)
                               ELSE cached_data.data,
                      tier |-> IF l2_hit THEN "redis" ELSE "file",
                      ttl |-> IF l2_hit THEN 0 ELSE cached_data.ttl]
        /\ UNCHANGED <<now, enable_memory, enable_redis, enable_file,
                       redis_kv, cache_files, uc_last, uc_written, uc_ops>>
        /\ UNCHANGED <<cbVars, rlVars, regVars>>

\* UnifiedCache.get, lines 160-164 and 185-199: the second thread copies the
\* value to the memory tier and, after a hit at the file, to Redis, and
\* returns it
UnifiedCache_get_copy ==
    LET full_key == make_key(uc_get.key, uc_get.namespace)
        seconds == int_seconds(Min(uc_get.ttl, redis_max_ttl))
    IN  /\ uc_get.pc = "copy"
        /\ memory_cache' = IF enable_memory
                           THEN Put(memory_cache, full_key,
                                    [data |-> uc_get.data, timestamp |-> now,
                                     ttl |-> memory_ttl])
                           ELSE memory_cache
        /\ redis_kv' = IF uc_get.tier = "file" /\ enable_redis /\ seconds > 0
                       THEN redis_setex(redis_kv, full_key, seconds,
                                        pickle_dumps(uc_get.data))
                       ELSE redis_kv
        /\ uc_get' = NoGet
        /\ UNCHANGED <<now, enable_memory, enable_redis, enable_file,
                       cache_files, uc_stats, uc_last, uc_written, uc_ops>>
        /\ UNCHANGED <<cbVars, rlVars, regVars>>

\* the first thread sets, gets and deletes one key while the second thread
\* gets it; no operation raises
NextUCG ==
    \/ \E nk \in NamespacedKeys, skip \in Skips :
          UnifiedCache_set(nk[2], "v1", 1 * TicksPerSecond, nk[1], skip, FALSE, "written")
    \/ \E nk \in NamespacedKeys : UnifiedCache_get(nk[2], nk[1], FALSE, FALSE)
    \/ \E nk \in NamespacedKeys : UnifiedCache_delete(nk[2], nk[1], FALSE)
    \/ \E nk \in NamespacedKeys : UnifiedCache_get_hit(nk[2], nk[1])
    \/ UnifiedCache_get_copy

SpecUCG == InitUC /\ [][NextUCG]_vars

\* C34: when delete(key, namespace) has returned and the thread that made
\* it gets the key next, with no set in between, the get returns the
\* default, whatever a get of another thread that had hit a lower tier
\* before the delete has done since.
C34_DeletedStaysDeleted ==
    [][\A nk \in NamespacedKeys :
          (/\ uc_last.op = "delete"
           /\ uc_last.namespace = nk[1]
           /\ uc_last.key = nk[2]
           /\ uc_last.failures = {}
           /\ GetOf(nk[1], nk[2]))
            => uc_last'.result = Default]_vars

=============================================================================
